---- MODULE Spec2Model ----
(***************************************************************************)
(* Clustering compaction (clustering_compactor.go): the run of one        *)
(* clusteringCompactionTask.Compact as a state machine.                   *)
(*                                                                         *)
(* Processes: the orchestrator (Compact/mapping), one mapping task per    *)
(* input segment (mappingSegment), the flush coordinator                  *)
(* (backgroundFlush), the flush pool tasks (flushBinlog) and the          *)
(* environment (context cancellation, Complete()).                        *)
(*                                                                         *)
(* Granularity: every critical section taken under clusterBufferLocks or  *)
(* buffer.flushLock is one action; every channel operation and every      *)
(* atomic load/store that another goroutine can observe separately is a   *)
(* separate action.  getBufferTotalUsedMemorySize is read as one          *)
(* snapshot.  Memory is counted in rows (one unit per row).               *)
(*                                                                         *)
(* Buffer ids are 1..NumBuffers (0..n-1 in the source).  conc.AwaitAll    *)
(* returns once every awaited future has returned.  Once Compact has      *)
(* returned, the goroutines it leaves behind are not followed any further.*)
(* I/O errors, cancellation and Complete() are drawn from one budget of   *)
(* MaxFaults per run.  init() is modelled over every plan in SpecInit;    *)
(* the other specifications start from a plan init accepts.               *)
(***************************************************************************)
EXTENDS Integers, Sequences, FiniteSets, TLC

\* ---------------------------------------------------------------- bounds
\* number of input segments of the plan (one mapping task each)
NumSegments == 2
\* largest number of rows of one input segment that pass the filter
MaxSegmentLen == 3
\* number of cluster buffers the Analyze stage creates
NumBuffers == 2
\* t.memoryBufferSize, in row units
MemoryBufferSize == 3
\* plan.MaxSegmentRows
MaxSegmentRows == 3
\* the writer's fullness threshold (SegmentWriter.IsFull), in row units
BinlogMaxSize == 1
\* the period of the condition check of mappingSegment (100 in the source)
CheckInterval == 2
\* consecutive wait-loop iterations counted per mapping task
MaxPolls == 2
\* I/O errors and stop requests (cancellation, Complete()) in one run
MaxFaults == 1
\* capacity of flushChan
FlushChanCap == 100
\* smallest field id a primary key may have
StartOfUserFieldID == 100

Tasks == 1 .. NumSegments
Buffers == 1 .. NumBuffers
SegIDLimit == NumBuffers + NumSegments * MaxSegmentLen
SegIDs == 1 .. SegIDLimit

VARIABLES
    plan,          \* the compaction plan (immutable input)
    stage,         \* position of Compact / mapping
    buffers,       \* t.clusterBuffers
    nextSegID,     \* t.segIDAlloc
    flushChan,     \* t.flushChan
    hasSignal,     \* t.hasSignal
    flushMutex,    \* t.flushMutex: "free", "coord" or "orch"
    inflight,      \* flush pool: the flushBinlog call submitted per buffer
    flushAllErr,   \* an error of a flush that flushAll awaits
    coord,         \* backgroundFlush: position and flushLargestBuffers locals
    pc,            \* mappingSegment: position of each mapping task
    remained,      \* mappingSegment: local remained
    target,        \* mappingSegment: local clusterBuffer (its id)
    signal,        \* mappingSegment: the FlushSignal built by flushWriterFunc
    polls,         \* wait-loop iterations in a row that saw memory above block
    writtenRowNum, \* t.writtenRowNum
    ctxDone,       \* ctx.Done() is closed
    doneTokens,    \* tokens in t.done (capacity 1)
    completed,     \* Complete() has been called
    keptRows,      \* history: rows yielded that the filter did not drop
    sawFiltered,   \* history: the filter has dropped a row
    flushFailed,   \* history: a flushBinlog call returned an error
    ioIssued,      \* history: a download or upload has been issued
    faults,        \* history: I/O errors and stop requests so far
    calc,          \* a function or a protocol followed on its own
    uploads        \* binlogIO: the partition statistics uploaded so far

runVars == << plan, stage, buffers, nextSegID, flushChan, hasSignal,
              flushMutex, inflight, flushAllErr, coord, pc, remained, target,
              signal, polls, writtenRowNum, ctxDone, doneTokens, completed,
              keptRows, sawFiltered, flushFailed, ioIssued, faults,
              uploads >>

vars == << plan, stage, buffers, nextSegID, flushChan, hasSignal, flushMutex,
           inflight, flushAllErr, coord, pc, remained, target,
           signal, polls, writtenRowNum, ctxDone, doneTokens, completed,
           keptRows, sawFiltered, flushFailed, ioIssued, faults, calc,
           uploads >>

\* ------------------------------------------------------------- the plan
\* A schema field: its id, whether it is flagged primary key, whether its
\* data type is a primary-key type.
FieldIDs == {1, 100, 101}
Fields == [id : FieldIDs, isPK : BOOLEAN, pkType : BOOLEAN]

\* plan.Schema.Fields: fields with distinct ids; hasSchema is plan.Schema # nil
FieldSets ==
    {s \in SUBSET Fields :
        /\ Cardinality(s) <= 2
        /\ \A f, g \in s : f.id = g.id => f = g}
Plans == [ctype : {"clustering", "mix"},
          nsegs : {0, NumSegments},
          hasSchema : BOOLEAN,
          fields : FieldSets,
          ckField : {100, 101},
          hasDeletes : BOOLEAN,
          planID : {1}]

ValidPlan == [ctype |-> "clustering", nsegs |-> NumSegments,
              hasSchema |-> TRUE,
              fields |-> {[id |-> 100, isPK |-> TRUE, pkType |-> TRUE],
                          [id |-> 101, isPK |-> FALSE, pkType |-> FALSE]},
              ckField |-> 101,
              hasDeletes |-> FALSE,
              planID |-> 1]

\* the loop of init over plan.Schema.Fields
ResolvePK(p) ==
    {f \in p.fields : f.isPK /\ f.id >= StartOfUserFieldID /\ f.pkType}
ResolveCK(p) == {f \in p.fields : f.id = p.ckField}

\* init(): "illegal" is an illegal-plan error, "panic" a nil dereference
\* of t.clusteringKeyField, "ok" a nil error.
InitOutcome(p) ==
    IF p.ctype # "clustering" THEN "illegal"
    ELSE IF p.nsegs = 0 THEN "illegal"
    ELSE IF ~p.hasSchema THEN "illegal"
    ELSE IF ResolveCK(p) = {} THEN "panic"
    ELSE "ok"

\* ------------------------------------------------------------- writers
NoWriter == [seg |-> 0, rows |-> 0]
NewSegmentWriter(segID) == [seg |-> segID, rows |-> 0]
Write(w) == [w EXCEPT !.rows = @ + 1]
GetRowNum(w) == w.rows
WrittenMemorySize(w) == w.rows
IsFull(w) == WrittenMemorySize(w) > BinlogMaxSize

\* ------------------------------------------------------------- buffers
EmptyRowNum == [s \in SegIDs |-> 0]
\* handed is history: the writer the buffer holds has been given to the
\* flush path by a rotation signal or by flushLargestBuffers
NewClusterBuffer ==
    [writer |-> NoWriter,
     handed |-> FALSE,
     bufferMemorySize |-> 0,
     currentSegmentRowNum |-> 0,
     flushedRowNum |-> EmptyRowNum,
     flushedBinlogs |-> {},
     uploadedSegments |-> << >>,
     uploadedSegmentStats |-> << >>]

getMemoryBufferLowWatermark == (MemoryBufferSize * 3) \div 10
getMemoryBufferHighWatermark == (MemoryBufferSize * 7) \div 10
getMemoryBufferBlockFlushThreshold == MemoryBufferSize

RECURSIVE SumMem(_, _)
SumMem(bufs, n) ==
    IF n = 0 THEN 0
    ELSE SumMem(bufs, n - 1)
         + WrittenMemorySize(bufs[n].writer) + bufs[n].bufferMemorySize
getBufferTotalUsedMemorySize == SumMem(buffers, NumBuffers)

\* refreshBufferWriterWithPack on a buffer that has a writer: the new
\* buffer, whether the retired writer's segment is to be packed, and the
\* allocator's next id.
refreshBufferWriterWithPack(buf, next) ==
    LET mem == buf.bufferMemorySize + WrittenMemorySize(buf.writer)
        pack == buf.currentSegmentRowNum > MaxSegmentRows
    IN  IF pack
        THEN [buf |-> [buf EXCEPT !.bufferMemorySize = mem,
                                  !.currentSegmentRowNum = 0,
                                  !.writer = NewSegmentWriter(next),
                                  !.handed = FALSE],
              pack |-> TRUE, next |-> next + 1]
        ELSE [buf |-> [buf EXCEPT !.bufferMemorySize = mem,
                                  !.writer = NewSegmentWriter(buf.writer.seg),
                                  !.handed = FALSE],
              pack |-> FALSE, next |-> next]

\* refreshBufferWriter: the successor keeps the segment id.
refreshBufferWriter(buf) ==
    [buf EXCEPT !.bufferMemorySize = @ + WrittenMemorySize(buf.writer),
                !.writer = NewSegmentWriter(buf.writer.seg),
                !.handed = FALSE]

\* a pack that records no segment statistics
packWithoutStats(buf, segID) ==
    IF segID \notin buf.flushedBinlogs THEN buf
    ELSE [buf EXCEPT
            !.uploadedSegments =
                Append(@, [seg |-> segID, rows |-> buf.flushedRowNum[segID]]),
            !.flushedBinlogs = @ \ {segID}]

\* packBufferToSegment: the segment is appended to uploadedSegments, its
\* statistics are stored under its id in the map uploadedSegmentStats and
\* its entry of flushedBinlogs is deleted
packBufferToSegment(buf, segID) ==
    IF segID \notin buf.flushedBinlogs THEN buf
    ELSE [buf EXCEPT
            !.uploadedSegments =
                Append(@, [seg |-> segID, rows |-> buf.flushedRowNum[segID]]),
            !.uploadedSegmentStats =
                (segID :> [rows |-> buf.flushedRowNum[segID]]) @@ @,
            !.flushedBinlogs = @ \ {segID}]

\* a flush that serializes a writer without rows as well
SkipFlushNever(w) == FALSE

\* flushBinlog, line 1012: a writer without rows is not serialized
SkipFlush(w) == GetRowNum(w) <= 0

\* flushBinlog without an I/O error
flushBinlog(buf, w, pack) ==
    IF SkipFlush(w)
    THEN IF pack THEN packBufferToSegment(buf, w.seg) ELSE buf
    ELSE LET flushed ==
                 [buf EXCEPT
                    !.flushedBinlogs = @ \cup {w.seg},
                    !.flushedRowNum[w.seg] = @ + GetRowNum(w),
                    !.bufferMemorySize = @ - WrittenMemorySize(w)]
         IN  IF pack THEN packBufferToSegment(flushed, w.seg) ELSE flushed

\* a Verify that never reports a leak
checkNothing == TRUE

\* checkBuffersAfterCompaction: TRUE when no binlog has leaked
checkBuffersAfterCompaction ==
    \A b \in Buffers : buffers[b].flushedBinlogs = {}

\* ------------------------------------------------------------ signals
NoSignal == [kind |-> "none", writer |-> NoWriter, pack |-> FALSE, id |-> 0]
DoneSignal == [kind |-> "done", writer |-> NoWriter, pack |-> FALSE, id |-> 0]
PressureSignal ==
    [kind |-> "pressure", writer |-> NoWriter, pack |-> FALSE, id |-> 0]
WriterSignal(w, pack, id) ==
    [kind |-> "writer", writer |-> w, pack |-> pack, id |-> id]

NoFlush == [busy |-> FALSE, writer |-> NoWriter, pack |-> FALSE]
CoordOff == [pc |-> "off", order |-> << >>, current |-> 0]
CoordSelect == [pc |-> "select", order |-> << >>, current |-> 0]

\* a flush that runs without taking t.flushMutex
NotLocked(who) == "free"

\* t.flushMutex once `who` has taken it (TryLock of line 825, Lock of
\* line 891)
Locked(who) == who

\* no planning function is being followed
NoCalc == [fn |-> "none"]

\* ---------------------------------------------------------------- Init
InitRun(p) ==
    /\ plan = p
    /\ stage = "init"
    /\ buffers = << >>
    /\ nextSegID = 1
    /\ flushChan = << >>
    /\ hasSignal = FALSE
    /\ flushMutex = "free"
    /\ inflight = [b \in Buffers |-> NoFlush]
    /\ flushAllErr = FALSE
    /\ coord = CoordOff
    /\ pc = [m \in Tasks |-> "idle"]
    /\ remained = [m \in Tasks |-> 0]
    /\ target = [m \in Tasks |-> 0]
    /\ signal = [m \in Tasks |-> NoSignal]
    /\ polls = [m \in Tasks |-> 0]
    /\ writtenRowNum = 0
    /\ ctxDone = FALSE
    /\ doneTokens = 0
    /\ completed = FALSE
    /\ keptRows = 0
    /\ sawFiltered = FALSE
    /\ flushFailed = FALSE
    /\ ioIssued = FALSE
    /\ faults = 0
    /\ uploads = << >>

InitWith(p) == InitRun(p) /\ calc = NoCalc

Init == InitWith(ValidPlan)

\* ------------------------------------------------- orchestrator: Compact
\* init(), then the context check of Compact; "illegal" is the return of
\* init's illegal-plan error
DoInit ==
    /\ stage = "init"
    /\ stage' = CASE InitOutcome(plan) = "illegal" -> "illegal"
                  [] InitOutcome(plan) = "panic" -> "panic"
                  [] OTHER -> IF ctxDone THEN "error" ELSE "analyze"
    /\ UNCHANGED << calc, uploads, plan, buffers, nextSegID, flushChan, hasSignal,
                    flushMutex, inflight, flushAllErr, coord, pc, remained,
                    target, signal, polls, writtenRowNum, ctxDone, doneTokens,
                    completed, keptRows, sawFiltered, flushFailed, ioIssued,
                    faults >>

\* the buffers the Analyze stage appends: buffer b gets a first writer
\* from refreshBufferWriterWithPack (writer nil: a segment id is allocated)
AnalyzedBuffers ==
    [b \in Buffers |-> [NewClusterBuffer EXCEPT !.writer = NewSegmentWriter(b)]]

\* getScalarAnalyzeResult / getVectorAnalyzeResult and the start of mapping:
\* the flush coordinator is started and every mapping task is submitted
Analyze ==
    /\ stage = "analyze"
    /\ ioIssued' = TRUE
    /\ stage' = "mapping"
    /\ buffers' = AnalyzedBuffers
    /\ nextSegID' = NumBuffers + 1
    /\ coord' = CoordSelect
    /\ pc' = [m \in Tasks |-> "run"]
    /\ UNCHANGED << calc, uploads, plan, flushChan, hasSignal, flushMutex, inflight,
                    flushAllErr, remained, target, signal, polls,
                    writtenRowNum, ctxDone, doneTokens, completed, keptRows,
                    sawFiltered, flushFailed, faults >>

\* a download of the Analyze stage fails
AnalyzeFail ==
    /\ stage = "analyze"
    /\ ioIssued' = TRUE
    /\ stage' = "error"
    /\ faults < MaxFaults
    /\ faults' = faults + 1
    /\ UNCHANGED << calc, uploads, plan, buffers, nextSegID, flushChan, hasSignal,
                    flushMutex, inflight, flushAllErr, coord, pc, remained,
                    target, signal, polls, writtenRowNum, ctxDone, doneTokens,
                    completed, keptRows, sawFiltered, flushFailed >>

Returned(m) == pc[m] \in {"finished", "stopped", "failed"}

\* an await that is content with the first future
AwaitFirstOK == pc[1] \in {"finished", "stopped"}

\* conc.AwaitAll(futures...): the futures are awaited in order and the
\* first error is returned
AwaitAllError ==
    \E m \in Tasks : /\ pc[m] = "failed"
                     /\ \A k \in Tasks : k < m => Returned(k)
AwaitAllOK == \A m \in Tasks : pc[m] \in {"finished", "stopped"}

\* mapping: a mapping task has failed
MappingError ==
    /\ stage = "mapping"
    /\ AwaitAllError
    /\ stage' = "error"
    /\ UNCHANGED << calc, uploads, plan, buffers, nextSegID, flushChan, hasSignal,
                    flushMutex, inflight, flushAllErr, coord, pc, remained,
                    target, signal, polls, writtenRowNum, ctxDone, doneTokens,
                    completed, keptRows, sawFiltered, flushFailed, ioIssued,
                    faults >>

\* mapping: every task returned nil; the drain-all request is enqueued
SendDrain ==
    /\ stage = "mapping"
    /\ AwaitAllOK
    /\ Len(flushChan) < FlushChanCap
    /\ flushChan' = Append(flushChan, DoneSignal)
    /\ stage' = "drainWait"
    /\ UNCHANGED << calc, uploads, plan, buffers, nextSegID, hasSignal, flushMutex,
                    inflight, flushAllErr, coord, pc, remained, target,
                    signal, polls, writtenRowNum, ctxDone, doneTokens,
                    completed, keptRows, sawFiltered, flushFailed, ioIssued,
                    faults >>

\* flushAll: the mutex is taken and one flushBinlog(pack) per buffer is
\* submitted to the flush pool
FlushAllStart ==
    /\ stage = "flushAll"
    /\ flushMutex = "free"
    /\ flushMutex' = Locked("orch")
    /\ inflight' = [b \in Buffers |->
                      [busy |-> TRUE, writer |-> buffers[b].writer, pack |-> TRUE]]
    /\ stage' = "flushAllWait"
    /\ UNCHANGED << calc, uploads, plan, buffers, nextSegID, flushChan, hasSignal,
                    flushAllErr, coord, pc, remained, target, signal,
                    polls, writtenRowNum, ctxDone, doneTokens, completed,
                    keptRows, sawFiltered, flushFailed, ioIssued, faults >>

\* an await that returns at once
NoneAwaited == TRUE

NoneInflight == \A b \in Buffers : ~inflight[b].busy

\* flushAll: every submitted flush has returned
FlushAllEnd ==
    /\ stage = "flushAllWait"
    /\ NoneInflight
    /\ flushMutex' = "free"
    /\ stage' = IF flushAllErr THEN "error" ELSE "verify"
    /\ UNCHANGED << calc, uploads, plan, buffers, nextSegID, flushChan, hasSignal,
                    inflight, flushAllErr, coord, pc, remained, target,
                    signal, polls, writtenRowNum, ctxDone, doneTokens,
                    completed, keptRows, sawFiltered, flushFailed, ioIssued,
                    faults >>

\* Verify: checkBuffersAfterCompaction decides between an error and the
\* assembly of the result
Verify ==
    /\ stage = "verify"
    /\ stage' = IF checkBuffersAfterCompaction THEN "uploadStats" ELSE "error"
    /\ UNCHANGED << calc, uploads, plan, buffers, nextSegID, flushChan, hasSignal,
                    flushMutex, inflight, flushAllErr, coord, pc, remained,
                    target, signal, polls, writtenRowNum, ctxDone, doneTokens,
                    completed, keptRows, sawFiltered, flushFailed, ioIssued,
                    faults >>

\* mapping, lines 508-531: the segments of the result and the partition
\* statistics, collected from the buffers 1 .. n in order
RECURSIVE resultSegments(_, _)
resultSegments(bufs, n) ==
    IF n = 0 THEN << >>
    ELSE resultSegments(bufs, n - 1) \o bufs[n].uploadedSegments
RECURSIVE resultPartitionStats(_, _)
resultPartitionStats(bufs, n) ==
    IF n = 0 THEN << >>
    ELSE bufs[n].uploadedSegmentStats @@ resultPartitionStats(bufs, n - 1)

\* uploadPartitionStats, lines 1087-1088: the plan id is the version
PartitionStatsSnapshot(p, stats) ==
    [version |-> p.planID, segmentStats |-> stats]

\* uploadPartitionStats and the return of the plan result
UploadPartitionStats ==
    /\ stage = "uploadStats"
    /\ stage' = "success"
    /\ uploads' = Append(uploads,
                         PartitionStatsSnapshot(plan,
                             resultPartitionStats(buffers, NumBuffers)))
    /\ UNCHANGED << calc, plan, buffers, nextSegID, flushChan, hasSignal,
                    flushMutex, inflight, flushAllErr, coord, pc, remained,
                    target, signal, polls, writtenRowNum, ctxDone, doneTokens,
                    completed, keptRows, sawFiltered, flushFailed, ioIssued,
                    faults >>

\* the upload of the partition statistics fails
UploadPartitionStatsFail ==
    /\ stage = "uploadStats"
    /\ stage' = "error"
    /\ faults < MaxFaults
    /\ faults' = faults + 1
    /\ UNCHANGED << calc, uploads, plan, buffers, nextSegID, flushChan, hasSignal,
                    flushMutex, inflight, flushAllErr, coord, pc, remained,
                    target, signal, polls, writtenRowNum, ctxDone, doneTokens,
                    completed, keptRows, sawFiltered, flushFailed, ioIssued >>

\* ------------------------------------------ mapping task: mappingSegment
\* the input: segment 1 has up to MaxSegmentLen rows that pass the filter,
\* every other segment one row less
SegmentLen(m) == IF m = 1 THEN MaxSegmentLen ELSE MaxSegmentLen - 1

\* a row of the Row Source: the buffer its clustering key resolves to
\* (keyToBufferFunc / offsetToBufferFunc), whether its primary key is in the
\* segment's delete set, whether its timestamp is older than the TTL cutoff
Rows == [buffer : Buffers, deleted : BOOLEAN, expired : BOOLEAN]

\* EntityFilter.Filtered
Filtered(row) == row.deleted \/ row.expired

\* the rows the Row Source can yield: without delete records and expired
\* rows in the input, no row is one the filter drops
RowSource == IF plan.hasDeletes THEN Rows ELSE {r \in Rows : ~Filtered(r)}

\* a filter test that forgets the expired rows
SkipDeletedOnly(row) == row.deleted

\* the test of line 645
SkipRow(row) == Filtered(row)

\* the test (remained+1)%100 == 0, at the model's period
CheckDue(n) == (n + 1) % CheckInterval = 0

\* writeToBuffer, under the buffer's lock
writeToBuffer(buf) ==
    [buf EXCEPT !.writer = Write(@), !.currentSegmentRowNum = @ + 1]

\* the next row of the segment: it is skipped, or written to its buffer
MapRow(m) ==
    /\ pc[m] = "run"
    /\ remained[m] < SegmentLen(m)
    /\ \E row \in RowSource :
         /\ IF SkipRow(row)
            THEN /\ UNCHANGED << buffers, writtenRowNum, remained, target, pc >>
            ELSE /\ buffers' = [buffers EXCEPT
                                  ![row.buffer] = writeToBuffer(@)]
                 /\ writtenRowNum' = writtenRowNum + 1
                 /\ remained' = [remained EXCEPT ![m] = @ + 1]
                 /\ IF CheckDue(remained[m] + 1)
                    THEN /\ target' = [target EXCEPT ![m] = row.buffer]
                         /\ pc' = [pc EXCEPT ![m] = "check"]
                    ELSE UNCHANGED << target, pc >>
         /\ IF Filtered(row)
            THEN /\ sawFiltered' = TRUE
                 /\ UNCHANGED keptRows
            ELSE /\ keptRows' = keptRows + 1
                 /\ UNCHANGED sawFiltered
    /\ UNCHANGED << calc, uploads, plan, stage, nextSegID, flushChan, hasSignal,
                    flushMutex, inflight, flushAllErr, coord, signal, polls,
                    ctxDone, doneTokens, completed, flushFailed, ioIssued,
                    faults >>

\* the Row Source signals the end of the stream: the task returns nil
MapEOF(m) ==
    /\ pc[m] = "run"
    /\ pc' = [pc EXCEPT ![m] = "finished"]
    /\ UNCHANGED << calc, uploads, plan, stage, buffers, nextSegID, flushChan,
                    hasSignal, flushMutex, inflight, flushAllErr, coord,
                    remained, target, signal, polls, writtenRowNum, ctxDone,
                    doneTokens, completed, keptRows, sawFiltered, flushFailed,
                    ioIssued, faults >>

\* a download or a decode fails: the task returns the error
MapFail(m) ==
    /\ pc[m] = "run"
    /\ pc' = [pc EXCEPT ![m] = "failed"]
    /\ faults < MaxFaults
    /\ faults' = faults + 1
    /\ UNCHANGED << calc, uploads, plan, stage, buffers, nextSegID, flushChan,
                    hasSignal, flushMutex, inflight, flushAllErr, coord,
                    remained, target, signal, polls, writtenRowNum, ctxDone,
                    doneTokens, completed, keptRows, sawFiltered, flushFailed,
                    ioIssued >>

\* the rotation condition of lines 670 and 677
NeedRotate(buf) ==
    buf.currentSegmentRowNum > MaxSegmentRows \/ IsFull(buf.writer)

\* the flush-pressure condition of line 698
NeedPressure(total, flag) ==
    total > getMemoryBufferHighWatermark /\ ~flag

\* lines 669-698: the memory snapshot and the choice of the branch; the
\* local clusterBuffer is kept only where the rotation still reads it
MapCheck(m) ==
    /\ pc[m] = "check"
    /\ IF NeedRotate(buffers[target[m]])
       THEN /\ pc' = [pc EXCEPT ![m] = "rotate"]
            /\ UNCHANGED target
       ELSE /\ pc' = [pc EXCEPT ![m] =
                        IF NeedPressure(getBufferTotalUsedMemorySize, hasSignal)
                        THEN "pressure" ELSE "blockCheck"]
            /\ target' = [target EXCEPT ![m] = 0]
    /\ UNCHANGED << calc, uploads, plan, stage, buffers, nextSegID, flushChan,
                    hasSignal, flushMutex, inflight, flushAllErr, coord,
                    remained, signal, polls, writtenRowNum, ctxDone,
                    doneTokens, completed, keptRows, sawFiltered, flushFailed,
                    ioIssued, faults >>

\* flushWriterFunc, the critical section: the condition is checked again
\* and the writer is replaced
MapRotate(m) ==
    /\ pc[m] = "rotate"
    /\ LET b == target[m]
           r == refreshBufferWriterWithPack(buffers[b], nextSegID)
       IN  IF NeedRotate(buffers[b])
           THEN /\ buffers' = [buffers EXCEPT ![b] = r.buf]
                /\ nextSegID' = r.next
                /\ signal' = [signal EXCEPT
                                ![m] = WriterSignal(buffers[b].writer, r.pack, b)]
                /\ pc' = [pc EXCEPT ![m] = "sendRotate"]
           ELSE /\ pc' = [pc EXCEPT ![m] = "blockCheck"]
                /\ UNCHANGED << buffers, nextSegID, signal >>
    /\ target' = [target EXCEPT ![m] = 0]
    /\ UNCHANGED << calc, uploads, plan, stage, flushChan, hasSignal, flushMutex,
                    inflight, flushAllErr, coord, remained, polls,
                    writtenRowNum, ctxDone, doneTokens, completed, keptRows,
                    sawFiltered, flushFailed, ioIssued, faults >>

\* flushWriterFunc when AllocOne returns an error (lines 1325-1328):
\* refreshBufferWriterWithPack has added the writer's size to the buffer's
\* memory and returns (true, err) before it stores a new writer or resets
\* the row count; line 678 drops the error, and the signal is built from
\* the writer the buffer still holds
MapRotateAllocFail(m) ==
    /\ pc[m] = "rotate"
    /\ faults < MaxFaults
    /\ faults' = faults + 1
    /\ LET b == target[m]
       IN  /\ NeedRotate(buffers[b])
           /\ buffers[b].currentSegmentRowNum > MaxSegmentRows
           /\ buffers' = [buffers EXCEPT
                            ![b].bufferMemorySize =
                                @ + WrittenMemorySize(buffers[b].writer),
                            ![b].handed = TRUE]
           /\ signal' = [signal EXCEPT
                           ![m] = WriterSignal(buffers[b].writer, TRUE, b)]
    /\ pc' = [pc EXCEPT ![m] = "sendRotate"]
    /\ target' = [target EXCEPT ![m] = 0]
    /\ UNCHANGED << calc, uploads, plan, stage, nextSegID, flushChan, hasSignal,
                    flushMutex, inflight, flushAllErr, coord, remained, polls,
                    writtenRowNum, ctxDone, doneTokens, completed, keptRows,
                    sawFiltered, flushFailed, ioIssued >>

\* flushWriterFunc, after the unlock: the signal is sent
MapSendRotate(m) ==
    /\ pc[m] = "sendRotate"
    /\ Len(flushChan) < FlushChanCap
    /\ flushChan' = Append(flushChan, signal[m])
    /\ signal' = [signal EXCEPT ![m] = NoSignal]
    /\ pc' = [pc EXCEPT ![m] = "blockCheck"]
    /\ UNCHANGED << calc, uploads, plan, stage, buffers, nextSegID, hasSignal,
                    flushMutex, inflight, flushAllErr, coord, remained,
                    target, polls, writtenRowNum, ctxDone, doneTokens,
                    completed, keptRows, sawFiltered, flushFailed, ioIssued,
                    faults >>

\* line 702: the flush-pressure signal is sent
MapSendPressure(m) ==
    /\ pc[m] = "pressure"
    /\ Len(flushChan) < FlushChanCap
    /\ flushChan' = Append(flushChan, PressureSignal)
    /\ pc' = [pc EXCEPT ![m] = "setFlag"]
    /\ UNCHANGED << calc, uploads, plan, stage, buffers, nextSegID, hasSignal,
                    flushMutex, inflight, flushAllErr, coord, remained,
                    target, signal, polls, writtenRowNum, ctxDone, doneTokens,
                    completed, keptRows, sawFiltered, flushFailed, ioIssued,
                    faults >>

\* line 703: hasSignal.Store(true)
MapSetFlag(m) ==
    /\ pc[m] = "setFlag"
    /\ hasSignal' = TRUE
    /\ pc' = [pc EXCEPT ![m] = "blockCheck"]
    /\ UNCHANGED << calc, uploads, plan, stage, buffers, nextSegID, flushChan,
                    flushMutex, inflight, flushAllErr, coord, remained,
                    target, signal, polls, writtenRowNum, ctxDone, doneTokens,
                    completed, keptRows, sawFiltered, flushFailed, ioIssued,
                    faults >>

\* line 707: the task enters the wait-loop above the block threshold
MapBlockCheck(m) ==
    /\ pc[m] = "blockCheck"
    /\ pc' = [pc EXCEPT ![m] =
                IF getBufferTotalUsedMemorySize > getMemoryBufferBlockFlushThreshold
                THEN "wait" ELSE "run"]
    /\ UNCHANGED << calc, uploads, plan, stage, buffers, nextSegID, flushChan,
                    hasSignal, flushMutex, inflight, flushAllErr, coord,
                    remained, target, signal, polls, writtenRowNum, ctxDone,
                    doneTokens, completed, keptRows, sawFiltered, flushFailed,
                    ioIssued, faults >>

\* an exit test against the block threshold instead of the high watermark
MayLeaveAtBlock(total) == total <= MemoryBufferSize

\* the exit test of the wait-loop, line 722
MayLeaveWait(total) == total < getMemoryBufferHighWatermark

\* a select that takes its default case whatever is ready
SelectDefaultAlways(cancelled, tokens) == TRUE

\* lines 712-718: the select takes the default case only when neither
\* ctx.Done() nor t.done is ready
SelectDefault(cancelled, tokens) == ~cancelled /\ tokens = 0

\* one iteration of the wait-loop taking the default case: the task leaves
\* the loop, or sleeps; polls counts the iterations in a row that saw the
\* memory above the block threshold
MapWaitPoll(m) ==
    /\ pc[m] = "wait"
    /\ SelectDefault(ctxDone, doneTokens)
    /\ LET total == getBufferTotalUsedMemorySize
       IN  IF MayLeaveWait(total)
           THEN /\ pc' = [pc EXCEPT ![m] = "run"]
                /\ polls' = [polls EXCEPT ![m] = 0]
           ELSE /\ UNCHANGED pc
                /\ polls' = [polls EXCEPT ![m] =
                               IF total > getMemoryBufferBlockFlushThreshold
                               THEN (IF @ < MaxPolls THEN @ + 1 ELSE @)
                               ELSE 0]
    /\ UNCHANGED << calc, uploads, plan, stage, buffers, nextSegID, flushChan,
                    hasSignal, flushMutex, inflight, flushAllErr, coord,
                    remained, target, signal, writtenRowNum, ctxDone,
                    doneTokens, completed, keptRows, sawFiltered, flushFailed,
                    ioIssued, faults >>

\* the wait-loop receives from ctx.Done(): the task returns nil
MapWaitCancelled(m) ==
    /\ pc[m] = "wait"
    /\ ctxDone
    /\ pc' = [pc EXCEPT ![m] = "stopped"]
    /\ polls' = [polls EXCEPT ![m] = 0]
    /\ UNCHANGED << calc, uploads, plan, stage, buffers, nextSegID, flushChan,
                    hasSignal, flushMutex, inflight, flushAllErr, coord,
                    remained, target, signal, writtenRowNum, ctxDone,
                    doneTokens, completed, keptRows, sawFiltered, flushFailed,
                    ioIssued, faults >>

\* the wait-loop receives from t.done: the task returns nil
MapWaitDone(m) ==
    /\ pc[m] = "wait"
    /\ doneTokens > 0
    /\ doneTokens' = doneTokens - 1
    /\ pc' = [pc EXCEPT ![m] = "stopped"]
    /\ polls' = [polls EXCEPT ![m] = 0]
    /\ UNCHANGED << calc, uploads, plan, stage, buffers, nextSegID, flushChan,
                    hasSignal, flushMutex, inflight, flushAllErr, coord,
                    remained, target, signal, writtenRowNum, ctxDone,
                    completed, keptRows, sawFiltered, flushFailed, ioIssued,
                    faults >>

\* ------------------------------------------- flush pool: flushBinlog
Submitted(w, pack) == [busy |-> TRUE, writer |-> w, pack |-> pack]

\* a submitted flushBinlog runs to its end without an error
FlushDone(b) ==
    /\ inflight[b].busy
    /\ buffers' = [buffers EXCEPT
                     ![b] = flushBinlog(@, inflight[b].writer, inflight[b].pack)]
    /\ inflight' = [inflight EXCEPT ![b] = NoFlush]
    /\ UNCHANGED << calc, uploads, plan, stage, nextSegID, flushChan, hasSignal,
                    flushMutex, flushAllErr, coord, pc, remained, target,
                    signal, polls, writtenRowNum, ctxDone, doneTokens,
                    completed, keptRows, sawFiltered, flushFailed, ioIssued,
                    faults >>

\* a submitted flushBinlog returns an error: serializeWrite or Upload fails
\* (lines 1021-1030, nothing is recorded), or packBufferToSegment fails
\* (lines 1071-1074, the flush is recorded and the segment is not packed)
FlushError(b) ==
    /\ inflight[b].busy
    /\ \E where \in {"upload", "pack"} :
         IF where = "upload"
         THEN /\ GetRowNum(inflight[b].writer) > 0
              /\ UNCHANGED buffers
         ELSE /\ inflight[b].pack
              /\ inflight[b].writer.seg \in
                    flushBinlog(buffers[b], inflight[b].writer, FALSE).flushedBinlogs
              /\ buffers' = [buffers EXCEPT
                               ![b] = flushBinlog(@, inflight[b].writer, FALSE)]
    /\ inflight' = [inflight EXCEPT ![b] = NoFlush]
    /\ flushFailed' = TRUE
    /\ flushAllErr' = (flushAllErr \/ stage = "flushAllWait")
    /\ faults < MaxFaults
    /\ faults' = faults + 1
    /\ UNCHANGED << calc, uploads, plan, stage, nextSegID, flushChan, hasSignal,
                    flushMutex, coord, pc, remained, target, signal, polls,
                    writtenRowNum, ctxDone, doneTokens, completed, keptRows,
                    sawFiltered, ioIssued >>

\* --------------------------------------- flush coordinator: backgroundFlush
\* the drain-all request is received and acknowledged on doneChan, where
\* mapping is waiting (lines 800-801 and 496)
CoordDrain ==
    /\ coord.pc = "select"
    /\ flushChan # << >>
    /\ Head(flushChan).kind = "done"
    /\ stage = "drainWait"
    /\ flushChan' = Tail(flushChan)
    /\ stage' = "flushAll"
    /\ UNCHANGED << calc, uploads, plan, buffers, nextSegID, hasSignal, flushMutex,
                    inflight, flushAllErr, coord, pc, remained, target,
                    signal, polls, writtenRowNum, ctxDone, doneTokens,
                    completed, keptRows, sawFiltered, flushFailed, ioIssued,
                    faults >>

\* a signal that carries a writer is received: its flush is submitted
CoordFlushWriter ==
    /\ coord.pc = "select"
    /\ flushChan # << >>
    /\ Head(flushChan).kind = "writer"
    /\ flushChan' = Tail(flushChan)
    /\ inflight' = [inflight EXCEPT
                      ![Head(flushChan).id] =
                          Submitted(Head(flushChan).writer, Head(flushChan).pack)]
    /\ coord' = [coord EXCEPT !.pc = "flush"]
    /\ UNCHANGED << calc, uploads, plan, stage, buffers, nextSegID, hasSignal,
                    flushMutex, flushAllErr, pc, remained, target, signal,
                    polls, writtenRowNum, ctxDone, doneTokens, completed,
                    keptRows, sawFiltered, flushFailed, ioIssued, faults >>

\* conc.AwaitAll(future) returns; its error is logged and dropped
CoordFlushReturn ==
    /\ coord.pc = "flush"
    /\ NoneInflight
    /\ coord' = CoordSelect
    /\ UNCHANGED << calc, uploads, plan, stage, buffers, nextSegID, flushChan,
                    hasSignal, flushMutex, inflight, flushAllErr, pc,
                    remained, target, signal, polls, writtenRowNum, ctxDone,
                    doneTokens, completed, keptRows, sawFiltered, flushFailed,
                    ioIssued, faults >>

\* the orders sort.Slice may leave the buffer ids in: non-increasing in the
\* sampled row count of the active writers
IsPermutation(o) ==
    /\ Len(o) = NumBuffers
    /\ \A b \in Buffers : \E i \in 1 .. NumBuffers : o[i] = b
\* an order by growing row counts
SortedByRowNumAscending(o) ==
    \A i \in 1 .. NumBuffers - 1 :
        GetRowNum(buffers[o[i]].writer) <= GetRowNum(buffers[o[i + 1]].writer)
SortedByRowNum(o) ==
    \A i \in 1 .. NumBuffers - 1 :
        GetRowNum(buffers[o[i]].writer) >= GetRowNum(buffers[o[i + 1]].writer)
FlushOrders ==
    {o \in [1 .. NumBuffers -> Buffers] : IsPermutation(o) /\ SortedByRowNum(o)}

\* flushLargestBuffers, line 825
TryLock == flushMutex = "free"

\* a watermark test that never holds
BelowLowWatermarkNever(total) == FALSE

\* flushLargestBuffers, line 831: no pass at or below the low watermark
BelowLowWatermark(total) == total <= getMemoryBufferLowWatermark

\* a flush-pressure signal is received: hasSignal is cleared and
\* flushLargestBuffers starts (lines 803-848)
CoordFlushLargest ==
    /\ coord.pc = "select"
    /\ flushChan # << >>
    /\ Head(flushChan).kind = "pressure"
    /\ flushChan' = Tail(flushChan)
    /\ hasSignal' = FALSE
    /\ IF TryLock /\ ~BelowLowWatermark(getBufferTotalUsedMemorySize)
       THEN /\ flushMutex' = Locked("coord")
            /\ \E o \in FlushOrders :
                 coord' = [pc |-> "retire", order |-> o,
                           current |-> getBufferTotalUsedMemorySize]
       ELSE UNCHANGED << flushMutex, coord >>
    /\ UNCHANGED << calc, uploads, plan, stage, buffers, nextSegID, inflight,
                    flushAllErr, pc, remained, target, signal, polls,
                    writtenRowNum, ctxDone, doneTokens, completed, keptRows,
                    sawFiltered, flushFailed, ioIssued, faults >>

\* flushLargestBuffers, one round of the loop of lines 851-880
FlushLargestRetire ==
    /\ coord.pc = "retire"
    /\ LET b == Head(coord.order)
           w == buffers[b].writer
           left == coord.current - WrittenMemorySize(w)
       IN  /\ buffers' = [buffers EXCEPT ![b] = refreshBufferWriter(@)]
           /\ inflight' = [inflight EXCEPT ![b] = Submitted(w, FALSE)]
           /\ coord' = IF BelowLowWatermark(left) \/ Tail(coord.order) = << >>
                       THEN [pc |-> "await", order |-> << >>, current |-> left]
                       ELSE [pc |-> "retire", order |-> Tail(coord.order),
                             current |-> left]
    /\ UNCHANGED << calc, uploads, plan, stage, nextSegID, flushChan, hasSignal,
                    flushMutex, flushAllErr, pc, remained, target, signal,
                    polls, writtenRowNum, ctxDone, doneTokens, completed,
                    keptRows, sawFiltered, flushFailed, ioIssued, faults >>

\* flushLargestBuffers, lines 881-886: every submitted flush has returned
FlushLargestEnd ==
    /\ coord.pc = "await"
    /\ \A b \in Buffers : ~inflight[b].busy
    /\ flushMutex' = "free"
    /\ coord' = CoordSelect
    /\ UNCHANGED << calc, uploads, plan, stage, buffers, nextSegID, flushChan,
                    hasSignal, inflight, flushAllErr, pc, remained, target,
                    signal, polls, writtenRowNum, ctxDone, doneTokens,
                    completed, keptRows, sawFiltered, flushFailed, ioIssued,
                    faults >>

\* the select receives from ctx.Done(): the coordinator returns
CoordExitCancelled ==
    /\ coord.pc = "select"
    /\ ctxDone
    /\ coord' = [coord EXCEPT !.pc = "exited"]
    /\ UNCHANGED << calc, uploads, plan, stage, buffers, nextSegID, flushChan,
                    hasSignal, flushMutex, inflight, flushAllErr, pc,
                    remained, target, signal, polls, writtenRowNum, ctxDone,
                    doneTokens, completed, keptRows, sawFiltered, flushFailed,
                    ioIssued, faults >>

\* the select receives from t.done: the coordinator returns
CoordExitDone ==
    /\ coord.pc = "select"
    /\ doneTokens > 0
    /\ doneTokens' = doneTokens - 1
    /\ coord' = [coord EXCEPT !.pc = "exited"]
    /\ UNCHANGED << calc, uploads, plan, stage, buffers, nextSegID, flushChan,
                    hasSignal, flushMutex, inflight, flushAllErr, pc,
                    remained, target, signal, polls, writtenRowNum, ctxDone,
                    completed, keptRows, sawFiltered, flushFailed, ioIssued,
                    faults >>

\* ------------------------------------------------------------ environment
Running == stage \in {"mapping", "drainWait", "flushAll", "flushAllWait",
                      "verify", "uploadStats"}
Returned_ == stage \in {"illegal", "error", "panic", "success"}

\* the external context is cancelled
Cancel ==
    /\ ~Returned_
    /\ ~ctxDone
    /\ ctxDone' = TRUE
    /\ faults < MaxFaults
    /\ faults' = faults + 1
    /\ UNCHANGED << calc, uploads, plan, stage, buffers, nextSegID, flushChan,
                    hasSignal, flushMutex, inflight, flushAllErr, coord, pc,
                    remained, target, signal, polls, writtenRowNum,
                    doneTokens, completed, keptRows, sawFiltered, flushFailed,
                    ioIssued >>

\* Complete(): one token is put into t.done
Complete ==
    /\ Running
    /\ ~completed
    /\ doneTokens = 0
    /\ doneTokens' = 1
    /\ completed' = TRUE
    /\ faults < MaxFaults
    /\ faults' = faults + 1
    /\ UNCHANGED << calc, uploads, plan, stage, buffers, nextSegID, flushChan,
                    hasSignal, flushMutex, inflight, flushAllErr, coord, pc,
                    remained, target, signal, polls, writtenRowNum, ctxDone,
                    keptRows, sawFiltered, flushFailed, ioIssued >>

\* ------------------------------------------------------- specifications
\* the steps of a run in which no I/O fails and nobody stops the task
Orchestrator ==
    \/ DoInit
    \/ Analyze
    \/ SendDrain
    \/ FlushAllStart
    \/ FlushAllEnd
    \/ Verify
    \/ UploadPartitionStats

Coordinator ==
    \/ CoordDrain
    \/ CoordFlushWriter
    \/ CoordFlushReturn
    \/ CoordFlushLargest
    \/ FlushLargestRetire
    \/ FlushLargestEnd

MappingTask(m) ==
    \/ MapRow(m)
    \/ MapEOF(m)
    \/ MapCheck(m)
    \/ MapRotate(m)
    \/ MapSendRotate(m)
    \/ MapSendPressure(m)
    \/ MapSetFlag(m)
    \/ MapBlockCheck(m)
    \/ MapWaitPoll(m)

FlushPool == \E b \in Buffers : FlushDone(b)

NextNoFault ==
    \/ Orchestrator
    \/ Running /\ Coordinator
    \/ Running /\ FlushPool
    \/ \E m \in Tasks : Running /\ MappingTask(m)

\* I/O errors, cancellation and Complete()
Faults ==
    \/ AnalyzeFail
    \/ MappingError
    \/ UploadPartitionStatsFail
    \/ \E b \in Buffers : Running /\ FlushError(b)
    \/ \E m \in Tasks : Running /\ MapFail(m)
    \/ \E m \in Tasks : Running /\ MapWaitCancelled(m)
    \/ \E m \in Tasks : Running /\ MapWaitDone(m)
    \/ Running /\ CoordExitCancelled
    \/ Running /\ CoordExitDone
    \/ Cancel
    \/ Complete

Next == NextNoFault \/ Faults

Spec == Init /\ [][Next]_vars

\* the same run over input segments that carry deleted and expired rows
PlanWithDeletes == [ValidPlan EXCEPT !.hasDeletes = TRUE]
InitFilter == InitWith(PlanWithDeletes)
SpecFilter == InitFilter /\ [][Next]_vars

SpecNoFault == Init /\ [][NextNoFault]_vars

\* the run whose only fault is the segment id allocator: what a flush does
\* with a writer that a mapping task still writes to is decided by the
\* segment writer, so these runs are kept apart from the other faults
AllocFaults == \E m \in Tasks : Running /\ MapRotateAllocFail(m)
NextAlloc == NextNoFault \/ AllocFaults
SpecAlloc == Init /\ [][NextAlloc]_vars

\* ------------------------------------------------------------ properties
\* the rows of the output segments: the NumOfRows of every uploaded segment
RECURSIVE SumRows(_)
SumRows(segs) ==
    IF segs = << >> THEN 0 ELSE Head(segs).rows + SumRows(Tail(segs))
RECURSIVE SumUploaded(_, _)
SumUploaded(bufs, n) ==
    IF n = 0 THEN 0
    ELSE SumUploaded(bufs, n - 1) + SumRows(bufs[n].uploadedSegments)
OutputRows == SumUploaded(buffers, NumBuffers)

\* the segment ids one buffer has packed
PackedSegments(buf) ==
    {buf.uploadedSegments[i].seg : i \in 1 .. Len(buf.uploadedSegments)}

\* C1: when Compact returns success over an input without deleted or
\* expired rows, the output segments hold as many rows as the mapping tasks
\* were given.
C1_RowConservation ==
    stage = "success" => OutputRows = keptRows

\* C3: no flush of a writer for segment id S is recorded after S was
\* packed: no buffer holds flushed binlogs under an id it has packed.
C3_PackAfterAllFlushes ==
    \A b \in Buffers :
        buffers # << >> =>
            buffers[b].flushedBinlogs \cap PackedSegments(buffers[b]) = {}

\* C5: at most one flush-pressure signal is pending in flushChan.
PendingPressure ==
    {i \in 1 .. Len(flushChan) : flushChan[i].kind = "pressure"}
C5_OnePressurePending == Cardinality(PendingPressure) <= 1

\* C9: a run in which a flushBinlog call or a mapping task returned an error
\* does not return success.
C9_ErrorsFailTheRun ==
    (flushFailed \/ \E m \in Tasks : pc[m] = "failed") => stage # "success"

\* the rows in the active writers
RECURSIVE SumWriters(_, _)
SumWriters(bufs, n) ==
    IF n = 0 THEN 0 ELSE SumWriters(bufs, n - 1) + GetRowNum(bufs[n].writer)
WriterRows == IF buffers = << >> THEN 0 ELSE SumWriters(buffers, NumBuffers)

\* C2: a row the filter drops is written to no buffer and counted in no
\* output segment: the writes are exactly the rows the filter kept, and
\* neither the writers nor the output segments hold more rows than that.
C2_FilteredNeverWritten ==
    /\ writtenRowNum = keptRows
    /\ WriterRows <= keptRows
    /\ buffers # << >> => OutputRows <= keptRows

\* C2, its case: a run that dropped a row returned output segments
C2_DroppedAndPacked ==
    sawFiltered /\ stage = "success" /\ OutputRows > 0

FlushLargestRunning == coord.pc \in {"retire", "await"}
FlushAllRunning == stage = "flushAllWait"
C8_FlushMutualExclusion ==
    /\ ~(FlushLargestRunning /\ FlushAllRunning)
    /\ FlushLargestRunning => flushMutex = "coord"
    /\ FlushAllRunning => flushMutex = "orch"

\* C8, its case: mapping has asked for the drain, and so for flushAll, while
\* flushLargestBuffers is running with a flush in flight
C8_DrainAskedDuringFlushLargest ==
    /\ stage = "drainWait"
    /\ FlushLargestRunning
    /\ \E b \in Buffers : inflight[b].busy

\* C7: the aggregate buffered memory is above the block threshold for at
\* most one iteration of a wait-loop: no mapping task sees it there in two
\* iterations in a row.
C7_OneIterationAboveBlock == \A m \in Tasks : polls[m] <= 1

\* C7, as the code keeps it: a mapping task in the wait-loop writes no row,
\* and it goes back to mapping only from an iteration that sees the
\* aggregate below the high watermark; otherwise it stays or is stopped.
WaitStep(m) ==
    pc[m] = "wait" =>
        /\ remained'[m] = remained[m]
        /\ \/ pc'[m] \in {"wait", "stopped"}
           \/ /\ pc'[m] = "run"
              /\ getBufferTotalUsedMemorySize < getMemoryBufferHighWatermark
C7_BlockedTaskWritesNothing == [][\A m \in Tasks : WaitStep(m)]_vars

\* C7, its case: a task has seen the aggregate above the block threshold in
\* two iterations in a row and is still waiting above it
C7_StillAboveBlock ==
    \E m \in Tasks :
        /\ pc[m] = "wait"
        /\ polls[m] >= 2
        /\ getBufferTotalUsedMemorySize > getMemoryBufferBlockFlushThreshold

\* C6: without cancellation and without a flush failure, a run in which a
\* mapping task is in the wait-loop can always take a step that changes
\* its state: the task is not left waiting for a flush nobody will start.
C6_NoBackpressureDeadlock ==
    (\E m \in Tasks : pc[m] = "wait") => ENABLED << NextNoFault >>_vars

\* ------------------------------------------------- init over every plan
\* the plans init has to reject, as the design lists them
IllegalPlan(p) ==
    \/ p.ctype # "clustering"
    \/ p.nsegs = 0
    \/ ~p.hasSchema
    \/ ResolvePK(p) = {}
    \/ ResolveCK(p) = {}

InitAnyPlan == \E p \in Plans : InitWith(p)
SpecInit == InitAnyPlan /\ [][DoInit]_vars

\* C10: init returns an illegal-plan error, having created no buffer and
\* issued no I/O, for every plan of the wrong type, without segments,
\* without schema, or whose primary key or clustering key is not resolved.
C10_InitRejectsIllegalPlans ==
    (stage # "init" /\ IllegalPlan(plan)) =>
        (stage = "illegal" /\ buffers = << >> /\ ~ioIssued)

\* ---------------------------------------------- the assignment planning
\* expectedBinlogSize, in bytes
expectedBinlogSize == 16777216

\* largest number of distinct clustering keys of an analyze dictionary
MaxKeys == 3
\* largest number of centroids of a vector analyze result
MaxCentroids == 4

\* integer division of Go on non-negative operands; a zero divisor panics
DivPanics(b) == b = 0
GoDiv(a, b) == a \div b

\* sum of the occurrence counts of the keys 1 .. n
RECURSIVE TotalRows(_, _)
TotalRows(dict, n) == IF n = 0 THEN 0 ELSE TotalRows(dict, n - 1) + dict[n]

\* a key that never gets a bucket of its own
OversizedNever(count, preferRows) == FALSE

\* generatedScalarPlan, line 1259: the key alone exceeds the preferred size
Oversized(count, preferRows) == count > preferRows

\* a bucket that is never closed for the max-row budget
ExceedsMaxNever(size, count, maxRows) == FALSE

\* generatedScalarPlan, line 1266: the key does not fit the current bucket
ExceedsMax(size, count, maxRows) == size + count > maxRows

\* generatedScalarPlan, one round of the loop over the sorted keys; st holds
\* buckets, currentBucket and currentBucketSize
ScalarPlanStep(st, key, count, maxRows, preferRows) ==
    IF Oversized(count, preferRows)
    THEN IF st.currentBucket # << >>
         THEN [buckets |-> Append(Append(st.buckets, st.currentBucket),
                                  << key >>),
               currentBucket |-> << >>,
               currentBucketSize |-> 0]
         ELSE [st EXCEPT !.buckets = Append(@, << key >>)]
    ELSE IF ExceedsMax(st.currentBucketSize, count, maxRows)
    THEN [buckets |-> Append(st.buckets, st.currentBucket),
          currentBucket |-> << key >>,
          currentBucketSize |-> count]
    ELSE IF st.currentBucketSize + count > preferRows
    THEN [buckets |-> Append(st.buckets, Append(st.currentBucket, key)),
          currentBucket |-> << >>,
          currentBucketSize |-> 0]
    ELSE [buckets |-> st.buckets,
          currentBucket |-> Append(st.currentBucket, key),
          currentBucketSize |-> st.currentBucketSize + count]

\* the loop of generatedScalarPlan over the keys i .. Len(dict); the keys
\* are the positions of the sorted key list
RECURSIVE ScalarPlanLoop(_, _, _, _, _)
ScalarPlanLoop(st, i, dict, maxRows, preferRows) ==
    IF i > Len(dict) THEN st
    ELSE ScalarPlanLoop(ScalarPlanStep(st, i, dict[i], maxRows, preferRows),
                        i + 1, dict, maxRows, preferRows)

\* a plan that leaves out the last currentBucket when it is empty
ScalarPlanWithoutEmptyTail(maxRows, preferRows, dict) ==
    LET st == ScalarPlanLoop([buckets |-> << >>, currentBucket |-> << >>,
                              currentBucketSize |-> 0],
                             1, dict, maxRows, preferRows)
    IN  IF st.currentBucket = << >> THEN st.buckets
        ELSE Append(st.buckets, st.currentBucket)

\* generatedScalarPlan: the last currentBucket is appended as it is
generatedScalarPlan(maxRows, preferRows, dict) ==
    LET st == ScalarPlanLoop([buckets |-> << >>, currentBucket |-> << >>,
                              currentBucketSize |-> 0],
                             1, dict, maxRows, preferRows)
    IN  Append(st.buckets, st.currentBucket)

\* switchPolicyForScalarPlan and splitClusterByScalarValue over the call c:
\* the error ("panic" is the division by zero of line 1294), the row
\* budgets handed to generatedScalarPlan and the buckets
bufferNumByMemory(c) == GoDiv(c.memoryBufferSize, expectedBinlogSize)
switchPolicyForTotal(totalRows, c) ==
    LET bySegmentMaxRows == GoDiv(totalRows, c.maxSegmentRows)
        byMemory == bufferNumByMemory(c)
        maxRows == GoDiv(totalRows, byMemory)
        preferRows == GoDiv(GoDiv(totalRows, byMemory) * c.preferRatio, 100)
    IN  IF byMemory > bySegmentMaxRows
        THEN [err |-> "nil", maxRows |-> c.maxSegmentRows,
              preferRows |-> c.preferSegmentRows,
              buckets |-> generatedScalarPlan(c.maxSegmentRows,
                                              c.preferSegmentRows, c.dict)]
        ELSE IF DivPanics(byMemory)
        THEN [err |-> "panic", maxRows |-> 0, preferRows |-> 0,
              buckets |-> << >>]
        ELSE [err |-> "nil", maxRows |-> maxRows, preferRows |-> preferRows,
              buckets |-> generatedScalarPlan(maxRows, preferRows, c.dict)]

\* splitClusterByScalarValue over a dictionary without null key: totalRows
\* is the sum of the counts of the keys
switchPolicyForScalarPlan(c) ==
    switchPolicyForTotal(TotalRows(c.dict, Len(c.dict)), c)

\* a group rule that is off by one position
GroupOfNext(i, num) == (i + 1) % num

\* splitCentroids, line 377: the group of the centroid at position i
GroupOf(i, num) == i % num

\* splitCentroids, the loop of lines 376-380 from position i (0-based) on;
\* result[g + 1] is the group g, resultIndex maps a position to its group
RECURSIVE SplitLoop(_, _, _, _, _)
SplitLoop(result, resultIndex, i, centroids, num) ==
    IF i >= Len(centroids) THEN [groups |-> result, index |-> resultIndex]
    ELSE LET group == GroupOf(i, num)
         IN  SplitLoop([result EXCEPT ![group + 1] = Append(@, centroids[i + 1])],
                       resultIndex @@ (i :> group),
                       i + 1, centroids, num)

\* splitCentroids: (nil, nil) when num <= 0
splitCentroids(centroids, num) ==
    IF num <= 0 THEN [groups |-> << >>, index |-> << >>]
    ELSE SplitLoop([g \in 1 .. num |-> << >>], << >>, 0, centroids, num)

\* the smaller of two numbers
Min(a, b) == IF a < b THEN a ELSE b

\* switchPolicyForVectorPlan and generatedVectorPlan over the call c with
\* c.centroids centroids: the error (always nil), the groups, the lookup
\* and the number of cluster buffers appended
switchPolicyForVectorPlan(c) ==
    LET bufferNum == Min(c.centroids, bufferNumByMemory(c))
        centroidsOffset == [i \in 1 .. c.centroids |-> i - 1]
        split == splitCentroids(centroidsOffset, bufferNum)
    IN  [err |-> "nil", bufferNum |-> bufferNum, groups |-> split.groups,
         index |-> split.index, buffers |-> Len(split.groups)]

\* offsetToBufferFunc(offset, idMapping): the id of the buffer the row is
\* written to, or a panic (index out of range) when idMapping has no entry
\* at offset or t.clusterBuffers has none at the group; a centroid index
\* that is no key of groupIndex reads as group 0
NoBuffer == [panic |-> FALSE, buffer |-> -1]
IndexOutOfRange == [panic |-> TRUE, buffer |-> -1]
offsetToBufferFunc(offset, idMapping, planned) ==
    IF offset >= Len(idMapping) THEN IndexOutOfRange
    ELSE LET centroid == idMapping[offset + 1]
             centroidGroupOffset ==
                 IF centroid \in DOMAIN planned.index
                 THEN planned.index[centroid] ELSE 0
         IN  IF centroidGroupOffset >= planned.buffers THEN IndexOutOfRange
             ELSE [panic |-> FALSE, buffer |-> centroidGroupOffset]

\* the calls of the planning functions that are followed
CountValues == {1, 2, 3, 10, 80}
Dicts == UNION {[1 .. n -> CountValues] : n \in 0 .. MaxKeys}
MemorySizes == {0, expectedBinlogSize - 1} \cup
               {k * expectedBinlogSize : k \in 1 .. 4}
ScalarCalls == [fn : {"scalar"}, dict : Dicts, memoryBufferSize : MemorySizes,
                maxSegmentRows : {2, 3, 50},
                preferSegmentRows : {1, 2, 3, 40},
                preferRatio : {50, 80, 100}, done : {FALSE}]
CentroidLists == UNION {[1 .. n -> 0 .. MaxCentroids - 1] : n \in 0 .. MaxCentroids}
SplitCalls == [fn : {"split"}, centroids : CentroidLists,
               num : -1 .. MaxCentroids, done : {FALSE}]
OffsetTables == UNION {[1 .. n -> 0 .. MaxCentroids] : n \in 0 .. 2}
VectorCalls == [fn : {"vector"}, centroids : 0 .. MaxCentroids,
                memoryBufferSize : MemorySizes, idMapping : OffsetTables,
                offset : 0 .. 2, done : {FALSE}, routed : {FALSE}]

InitPlanning ==
    /\ InitRun(ValidPlan)
    /\ calc \in ScalarCalls \cup SplitCalls \cup VectorCalls

\* getScalarAnalyzeResult: the buckets are planned; one cluster buffer per
\* bucket is appended
PlanScalar ==
    /\ calc.fn = "scalar"
    /\ ~calc.done
    /\ calc' = [fn |-> "scalar", call |-> calc, done |-> TRUE,
                planned |-> switchPolicyForScalarPlan(calc)]
    /\ UNCHANGED runVars

\* a call of splitCentroids
SplitCentroids ==
    /\ calc.fn = "split"
    /\ ~calc.done
    /\ calc' = [fn |-> "split", call |-> calc, done |-> TRUE,
                split |-> splitCentroids(calc.centroids, calc.num)]
    /\ UNCHANGED runVars

\* getVectorAnalyzeResult: the groups are planned; one cluster buffer per
\* group is appended
PlanVector ==
    /\ calc.fn = "vector"
    /\ ~calc.done
    /\ calc' = [fn |-> "vector", call |-> calc, done |-> TRUE,
                routed |-> FALSE, buffer |-> NoBuffer,
                planned |-> switchPolicyForVectorPlan(calc)]
    /\ UNCHANGED runVars

\* mappingSegment, lines 657-658: the row at the ordinal offset call.offset
\* is routed through the segment's offset table
RouteRow ==
    /\ calc.fn = "vector"
    /\ calc.done
    /\ ~calc.routed
    /\ calc' = [calc EXCEPT
                  !.routed = TRUE,
                  !.buffer = offsetToBufferFunc(calc.call.offset,
                                                calc.call.idMapping,
                                                calc.planned)]
    /\ UNCHANGED runVars

NextPlanning == PlanScalar \/ SplitCentroids \/ PlanVector \/ RouteRow
SpecPlanning == InitPlanning /\ [][NextPlanning]_vars

\* the buffer count the planning computes for a call
ComputedBufferCount(c) ==
    IF c.fn = "scalar" THEN bufferNumByMemory(c)
    ELSE Min(c.centroids, bufferNumByMemory(c))

\* C11: when the computed buffer count is zero or negative, the assignment
\* planning ends with an illegal-plan error (and so mapping is not started).
C11_NonPositiveBufferCountIsIllegal ==
    (calc.fn \in {"scalar", "vector"} /\ calc.done
        /\ ComputedBufferCount(calc.call) <= 0)
    => calc.planned.err = "illegal"

\* C12: a writer rotation whose segment id allocation fails ends the mapping
\* task with an error: the task neither goes on with the writer that was
\* not replaced nor builds a flush signal from it.
C12_AllocFailureIsFatal ==
    [][\A m \in Tasks :
          (faults' > faults /\ pc[m] = "rotate" /\ pc'[m] # "rotate")
          => (pc'[m] = "failed" /\ signal'[m] = NoSignal)]_vars

\* C13: a mapping task in the wait-loop whose context is cancelled, or that
\* takes the token of t.done, makes no further iteration: its next step
\* leaves the loop and the task returns nil.
C13_WaitLoopLeavesOnStop ==
    [][\A m \in Tasks :
          (/\ pc[m] = "wait"
           /\ pc'[m] # "wait" \/ polls'[m] # polls[m]
           /\ ctxDone \/ doneTokens' < doneTokens)
          => pc'[m] = "stopped"]_vars

\* a task has left the wait-loop of a cancelled run
C13_StoppedInWaitLoop ==
    /\ ctxDone
    /\ \E m \in Tasks : pc[m] = "stopped"

\* a finished call of the scalar planning that returned buckets
ScalarPlanned == calc.fn = "scalar" /\ calc.done /\ calc.planned.err = "nil"

\* the keys of a bucket, and the buckets a key is a member of
KeysOf(bucket) == {bucket[j] : j \in 1 .. Len(bucket)}
BucketsWith(buckets, key) ==
    {i \in 1 .. Len(buckets) : key \in KeysOf(buckets[i])}

\* C14: in a scalar plan every key whose count alone exceeds the preferred
\* bucket size is the only key of its bucket.
C14_OversizedKeyAlone ==
    ScalarPlanned =>
        \A key \in 1 .. Len(calc.call.dict) :
            calc.call.dict[key] > calc.planned.preferRows
            => /\ BucketsWith(calc.planned.buckets, key) # {}
               /\ \A i \in BucketsWith(calc.planned.buckets, key) :
                      calc.planned.buckets[i] = << key >>

\* a plan over an oversized key that lies between two smaller keys
C14_OversizedBetweenSmallKeys ==
    /\ ScalarPlanned
    /\ Len(calc.call.dict) = 3
    /\ calc.call.dict[2] > calc.planned.preferRows
    /\ calc.call.dict[2] <= calc.planned.maxRows
    /\ calc.call.dict[1] <= calc.planned.preferRows
    /\ calc.call.dict[3] <= calc.planned.preferRows

\* the buckets laid end to end, and the rows of a bucket
RECURSIVE Flatten(_)
Flatten(buckets) ==
    IF buckets = << >> THEN << >>
    ELSE Head(buckets) \o Flatten(Tail(buckets))
RECURSIVE BucketRows(_, _)
BucketRows(dict, bucket) ==
    IF bucket = << >> THEN 0
    ELSE dict[Head(bucket)] + BucketRows(dict, Tail(bucket))

\* the buckets are consecutive runs of the sorted key list
ConsecutiveRuns ==
    Flatten(calc.planned.buckets) = [i \in 1 .. Len(calc.call.dict) |-> i]

\* a bucket made of one key whose count alone exceeds the preferred size
ForcedSingleton(bucket) ==
    /\ Len(bucket) = 1
    /\ calc.call.dict[bucket[1]] > calc.planned.preferRows

\* C15 as stated: the buckets are consecutive runs of the sorted keys, and
\* every bucket that is not the singleton of a key above the preferred size
\* holds at most maxRows rows, whatever row budgets the policy passes in.
C15_BoundedExceptForcedSingletons ==
    ScalarPlanned =>
        /\ ConsecutiveRuns
        /\ \A i \in 1 .. Len(calc.planned.buckets) :
              \/ ForcedSingleton(calc.planned.buckets[i])
              \/ BucketRows(calc.call.dict, calc.planned.buckets[i])
                     <= calc.planned.maxRows

\* C15, amended: the buckets are consecutive runs of the sorted keys, and
\* every bucket of more than one key holds at most maxRows rows; a bucket
\* above maxRows is a single key.
C15_BoundedExceptSingleKeys ==
    ScalarPlanned =>
        /\ ConsecutiveRuns
        /\ \A i \in 1 .. Len(calc.planned.buckets) :
              \/ Len(calc.planned.buckets[i]) = 1
              \/ BucketRows(calc.call.dict, calc.planned.buckets[i])
                     <= calc.planned.maxRows

\* a plan whose preferred size is above its max-row budget: a bucket of two
\* keys, then one key that is above the budget and not above the preferred
\* size
C15_SingleKeyAboveBudget ==
    /\ ScalarPlanned
    /\ calc.planned.preferRows > calc.planned.maxRows
    /\ Len(calc.planned.buckets) = 2
    /\ Len(calc.planned.buckets[1]) = 2
    /\ Len(calc.planned.buckets[2]) = 1
    /\ ~ForcedSingleton(calc.planned.buckets[2])
    /\ BucketRows(calc.call.dict, calc.planned.buckets[2])
          > calc.planned.maxRows

\* getScalarAnalyzeResult, lines 313-337: one cluster buffer is appended per
\* bucket of the plan (the dictionary holds no null key)
ScalarClusterBuffers(planned) == Len(planned.buckets)

\* C16: keys v1 < v2 < v3 with the counts 10, 10 and 80, maxRows = 50 and
\* preferRows = 40 give exactly the two buckets {v1, v2} and {v3}, and
\* exactly 2 cluster buffers.
C16_TwoBucketsTwoBuffers ==
    (/\ ScalarPlanned
     /\ calc.call.dict = << 10, 10, 80 >>
     /\ calc.planned.maxRows = 50
     /\ calc.planned.preferRows = 40)
    => /\ calc.planned.buckets = << << 1, 2 >>, << 3 >> >>
       /\ ScalarClusterBuffers(calc.planned) = 2

\* a vector plan of at least one buffer whose row has been routed
VectorRouted ==
    /\ calc.fn = "vector"
    /\ calc.done
    /\ calc.routed
    /\ calc.planned.bufferNum >= 1

\* the groups of a plan that hold the centroid index c
GroupsWith(groups, c) == {g \in 1 .. Len(groups) : c \in KeysOf(groups[g])}

\* the row's ordinal offset has an entry in the offset table and the entry
\* is one of the centroid indices 0 .. n-1
ValidEntry(c) ==
    /\ c.offset < Len(c.idMapping)
    /\ c.idMapping[c.offset + 1] \in 0 .. c.centroids - 1

\* C17: in the vector path every centroid index 0 .. n-1 is in exactly one
\* buffer group, and a row whose offset-table entry is no valid centroid
\* index, or whose offset has no entry, is not routed to any buffer.
C17_InvalidEntryIsNotRouted ==
    VectorRouted =>
        /\ \A c \in 0 .. calc.call.centroids - 1 :
              Cardinality(GroupsWith(calc.planned.groups, c)) = 1
        /\ ~ValidEntry(calc.call) => calc.buffer.panic

\* a finished call of splitCentroids with num >= 1
SplitDone == calc.fn = "split" /\ calc.done /\ calc.call.num >= 1

\* the positions (from 0) of a list of n centroids that are congruent to g
PositionsOf(n, num, g) == {i \in 0 .. n - 1 : i % num = g}

\* C18: splitCentroids(centroids, num) with num >= 1 puts the centroid at
\* position i into group i mod num, in the order of the input: the groups
\* partition the input, their sizes differ by at most one, and the lookup
\* maps every position to the group that holds its centroid; 4 centroids
\* and num = 2 give the groups {0, 2} and {1, 3}.
C18_RoundRobinGroups ==
    /\ (/\ calc.fn = "vector"
        /\ calc.done
        /\ calc.call.centroids = 4
        /\ calc.call.memoryBufferSize = 2 * expectedBinlogSize)
       => calc.planned.groups = << << 0, 2 >>, << 1, 3 >> >>
    /\ SplitDone =>
        LET centroids == calc.call.centroids
            num == calc.call.num
            groups == calc.split.groups
            index == calc.split.index
        IN  /\ Len(groups) = num
            /\ \A g \in 0 .. num - 1 :
                  /\ Len(groups[g + 1]) =
                        Cardinality(PositionsOf(Len(centroids), num, g))
                  /\ \A j \in 1 .. Len(groups[g + 1]) :
                        groups[g + 1][j] = centroids[(j - 1) * num + g + 1]
            /\ \A g, h \in 1 .. num :
                  Len(groups[g]) - Len(groups[h]) <= 1
            /\ DOMAIN index = 0 .. Len(centroids) - 1
            /\ \A i \in 0 .. Len(centroids) - 1 :
                  /\ index[i] = i % num
                  /\ centroids[i + 1] \in KeysOf(groups[index[i] + 1])
            /\ (centroids = << 0, 1, 2, 3 >> /\ num = 2)
                  => groups = << << 0, 2 >>, << 1, 3 >> >>

\* the four centroids 0 .. 3 have been split into two groups
C18_FourCentroidsTwoGroups ==
    /\ SplitDone
    /\ calc.call.centroids = << 0, 1, 2, 3 >>
    /\ calc.call.num = 2
    /\ Len(calc.split.groups) = 2

\* the stages of Compact in the order of the code: Init, Analyze, Mapping,
\* DrainFlush, FlushAll (submit and await), Verify, Done (statistics upload
\* and result); and the stages of a run that returned an error or panicked
StageOrder ==
    { << "init", "analyze" >>, << "analyze", "mapping" >>,
      << "mapping", "drainWait" >>, << "drainWait", "flushAll" >>,
      << "flushAll", "flushAllWait" >>, << "flushAllWait", "verify" >>,
      << "verify", "uploadStats" >>, << "uploadStats", "success" >> }
FailedStages == {"illegal", "error", "panic"}

\* every mapping task has returned nil
AllTasksFinished == \A m \in Tasks : pc[m] \in {"finished", "stopped"}

\* C19: the stages of a run follow one another only in the order Init,
\* Analyze, Mapping, DrainFlush, FlushAll, Verify, Done (or the run ends with
\* an error); flush-all is entered only from DrainFlush, by the step that
\* takes the drain-all request off the queue, with every mapping task
\* finished; the statistics upload is entered only from a Verify that found
\* no unpacked binlog, and success only from the upload.
C19_StagesInOrder ==
    [][stage' # stage =>
          /\ \/ << stage, stage' >> \in StageOrder
             \/ stage' \in FailedStages /\ stage \notin FailedStages \cup {"success"}
          /\ stage' = "flushAll" =>
                /\ AllTasksFinished
                /\ flushChan # << >>
                /\ Head(flushChan) = DoneSignal
                /\ flushChan' = Tail(flushChan)
          /\ stage' = "flushAllWait" => AllTasksFinished
          /\ stage' = "uploadStats" =>
                \A b \in Buffers : buffers[b].flushedBinlogs = {}
      ]_vars

\* a run that went through every stage and wrote rows
C19_RunSucceeded == stage = "success" /\ writtenRowNum > 0

\* the step in which the caller receives the drain-all acknowledgement
DrainAck == stage = "drainWait" /\ stage' = "flushAll"

\* the stages from the drain-all request on
AfterDrainRequest ==
    {"drainWait", "flushAll", "flushAllWait", "verify", "uploadStats"}

SegmentIDsOf(segs) == {segs[i].seg : i \in 1 .. Len(segs)}

\* C21: on success exactly one partition statistics snapshot has been
\* uploaded; its version is the plan id, it has exactly one entry per output
\* segment (the same segment ids, as many entries as segments) and every
\* entry's row count is the row count of that output segment.
C21_OneStatsEntryPerOutputSegment ==
    stage = "success" =>
        LET segs == resultSegments(buffers, NumBuffers)
        IN  /\ Len(uploads) = 1
            /\ uploads[1].version = plan.planID
            /\ DOMAIN uploads[1].segmentStats = SegmentIDsOf(segs)
            /\ Cardinality(DOMAIN uploads[1].segmentStats) = Len(segs)
            /\ \A i \in 1 .. Len(segs) :
                  uploads[1].segmentStats[segs[i].seg].rows = segs[i].rows

\* no flush has recorded a row for the buffer
NothingFlushed(buf) == \A seg \in SegIDs : buf.flushedRowNum[seg] = 0

\* C22: a mapping task that reads a row covered by the delete log writes
\* nothing and goes on without an error, so a segment all of whose rows are
\* covered leaves its task with zero rows written; while no row passed the
\* filter no buffer holds a row; and after flush-all a buffer for which no
\* row was flushed has no output segment and no statistics entry.
C22_DeletedSegmentWritesNothing ==
    /\ [][\A m \in Tasks :
             (MapRow(m) /\ keptRows' = keptRows)
             => /\ buffers' = buffers
                /\ remained' = remained
                /\ writtenRowNum' = writtenRowNum
                /\ pc'[m] = "run"]_vars
    /\ [](keptRows = 0 =>
             /\ writtenRowNum = 0
             /\ \A m \in Tasks : remained[m] = 0
             /\ buffers # << >> =>
                   \A b \in Buffers : GetRowNum(buffers[b].writer) = 0)
    /\ [](stage \in {"verify", "uploadStats", "success"} =>
             \A b \in Buffers :
                 NothingFlushed(buffers[b])
                 => /\ buffers[b].uploadedSegments = << >>
                    /\ buffers[b].uploadedSegmentStats = << >>)

\* every row of every segment was covered by the delete log (or expired):
\* the tasks returned nil and the run succeeded without an output segment
C22_AllRowsDeleted ==
    /\ stage = "success"
    /\ sawFiltered
    /\ keptRows = 0
    /\ \A m \in Tasks : pc[m] = "finished"
    /\ resultSegments(buffers, NumBuffers) = << >>

\* ------------------------------------------------------- BitmapBinning
\* the number of permission ids (description.md) and the default bin size
LARGE_BITMAP_THRESHOLD == 100000
DEFAULT_BIN_SIZE == 1000

\* size_t: unsigned arithmetic wraps at 2^SizeBits; the model's word is
\* shorter than the machine's, the threshold is the real one
SizeBits == 20
SizeModulus == 2 ^ SizeBits
SizeT(x) == x % SizeModulus

\* static_cast<T>(i) for an unsigned element type T of the given width
StaticCast(i, bits) == IF bits >= SizeBits THEN i ELSE i % (2 ^ bits)

GetBin(bin_size, permission_id) == permission_id \div bin_size

GetBinRange(bin_size, bin_id) ==
    LET start == SizeT(bin_id * bin_size)
        sum == SizeT(start + bin_size)
    IN  [start |-> start,
         end |-> IF sum < LARGE_BITMAP_THRESHOLD
                 THEN sum ELSE LARGE_BITMAP_THRESHOLD]

\* the ids the loops of GetBinMask and GetBinPermissions visit
RangeIds(range) == {i \in range.start .. range.end - 1 : TRUE}

GetBinMask(bin_size, bin_id) == RangeIds(GetBinRange(bin_size, bin_id))

GetBinPermissions(bin_size, bin_id, bits) ==
    LET range == GetBinRange(bin_size, bin_id)
    IN  [k \in 1 .. range.end - range.start |->
            StaticCast(range.start + k - 1, bits)]

GetNumBins(bin_size) ==
    SizeT(LARGE_BITMAP_THRESHOLD + bin_size - 1) \div bin_size

\* the calls that are followed: bin sizes around the default, around the
\* threshold and at the end of size_t; element types of 8, 16 and 32 bits
BinSizes == {1, 3, 999, DEFAULT_BIN_SIZE, 1001, 33333,
             LARGE_BITMAP_THRESHOLD - 1, LARGE_BITMAP_THRESHOLD,
             LARGE_BITMAP_THRESHOLD + 1,
             SizeModulus - LARGE_BITMAP_THRESHOLD,
             SizeModulus - LARGE_BITMAP_THRESHOLD + 1, SizeModulus - 1}
PermissionIds == {0, 1, 999, 1000, 50000, LARGE_BITMAP_THRESHOLD - 1}
ElementBits == {8, 16, 32}
BinCalls == [fn : {"bin"}, bin_size : BinSizes,
             permission_id : PermissionIds, done : {FALSE}]
MaskCalls == [fn : {"mask"}, bin_size : {1, 3, 999, DEFAULT_BIN_SIZE, 1001},
              bin_id : {0, 1, 99}, bits : ElementBits, done : {FALSE}]
NumBinsCalls == [fn : {"bins"}, bin_size : BinSizes, done : {FALSE}]

InitBinning ==
    /\ InitRun(ValidPlan)
    /\ calc \in BinCalls \cup MaskCalls \cup NumBinsCalls

\* GetBin(p) and GetBinRange of the bin
BinOfPermission ==
    /\ calc.fn = "bin"
    /\ ~calc.done
    /\ calc' = [fn |-> "bin", call |-> calc, done |-> TRUE,
                bin |-> GetBin(calc.bin_size, calc.permission_id),
                range |-> GetBinRange(calc.bin_size,
                                      GetBin(calc.bin_size, calc.permission_id))]
    /\ UNCHANGED runVars

\* GetBinMask and GetBinPermissions of a bin
MaskOfBin ==
    /\ calc.fn = "mask"
    /\ ~calc.done
    /\ calc' = [fn |-> "mask", call |-> calc, done |-> TRUE,
                range |-> GetBinRange(calc.bin_size, calc.bin_id),
                mask |-> GetBinMask(calc.bin_size, calc.bin_id),
                perms |-> GetBinPermissions(calc.bin_size, calc.bin_id,
                                            calc.bits)]
    /\ UNCHANGED runVars

\* GetNumBins
NumBins ==
    /\ calc.fn = "bins"
    /\ ~calc.done
    /\ calc' = [fn |-> "bins", call |-> calc, done |-> TRUE,
                numBins |-> GetNumBins(calc.bin_size)]
    /\ UNCHANGED runVars

NextBinning == BinOfPermission \/ MaskOfBin \/ NumBins
SpecBinning == InitBinning /\ [][NextBinning]_vars

\* p lies in the half-open range
InRange(p, range) == range.start <= p /\ p < range.end

\* C23: for every bin size >= 1 every permission id below 100000 lies in
\* the range of its bin; the ranges of the bins 0 .. GetNumBins()-1 are
\* non-empty, follow one another without gap or overlap from 0 to 100000;
\* the default bin size gives 100 bins of 1000 ids; GetBinMask and
\* GetBinPermissions of a bin hold exactly the ids of its range.
C23_BinsPartitionTheIds ==
    /\ (calc.fn = "bin" /\ calc.done)
       => InRange(calc.call.permission_id, calc.range)
    /\ (calc.fn = "bins" /\ calc.done) =>
         LET size == calc.call.bin_size
             n == calc.numBins
         IN  /\ n >= 1
             /\ GetBinRange(size, 0).start = 0
             /\ GetBinRange(size, n - 1).end = LARGE_BITMAP_THRESHOLD
             /\ \A b \in 0 .. n - 1 :
                   /\ GetBinRange(size, b).start < GetBinRange(size, b).end
                   /\ b < n - 1 => GetBinRange(size, b).end
                                      = GetBinRange(size, b + 1).start
             /\ \A p \in 0 .. LARGE_BITMAP_THRESHOLD - 1 :
                   /\ GetBin(size, p) < n
                   /\ InRange(p, GetBinRange(size, GetBin(size, p)))
             /\ size = DEFAULT_BIN_SIZE =>
                   /\ n = 100
                   /\ \A b \in 0 .. n - 1 :
                         GetBinRange(size, b).end - GetBinRange(size, b).start
                            = 1000
    /\ (calc.fn = "mask" /\ calc.done) =>
         /\ calc.mask = calc.range.start .. calc.range.end - 1
         /\ Len(calc.perms) = calc.range.end - calc.range.start
         /\ KeysOf(calc.perms) = calc.range.start .. calc.range.end - 1

\* ---------------------------------------------------------------- OrBiC
\* the bitmaps given to BuildClusters and the queries of GetOptimizedOrder
MaxBitmaps == 3
MaxQueries == 2
Bitmaps == SUBSET {1, 2}
BitmapLists == UNION {[1 .. n -> Bitmaps] : n \in 0 .. MaxBitmaps}

\* the comparator handed to std::sort, and the comparator of an ascending sort
AscendingCardinality(a, b) == a.second < b.second
DescendingCardinality(a, b) == a.second > b.second

\* clusters_ after the fill loop: (index, cardinality), indices from 0
FilledClusters(bitmaps) ==
    [i \in 1 .. Len(bitmaps) |->
        [first |-> i - 1, second |-> Cardinality(bitmaps[i])]]

\* std::sort is not stable: every arrangement of the elements that the
\* comparator accepts as ordered is a possible result
StdSort(clusters) ==
    LET n == Len(clusters)
        arrangements == {f \in [1 .. n -> 1 .. n] :
                            \A i, j \in 1 .. n : f[i] = f[j] => i = j}
    IN  {[i \in 1 .. n |-> clusters[f[i]]] : f \in
            {g \in arrangements :
                \A i, j \in 1 .. n :
                    i < j => ~DescendingCardinality(clusters[g[j]],
                                                    clusters[g[i]])}}

\* the order GetOptimizedOrder returns: the query is not read
GetOptimizedOrder(clusters, query) ==
    [i \in 1 .. Len(clusters) |-> clusters[i].first]

InitOrBiC ==
    /\ InitRun(ValidPlan)
    /\ calc = [fn |-> "orbic", built |-> FALSE, bitmaps |-> << >>,
               clusters |-> << >>, orders |-> << >>]

\* BuildClusters(bitmaps)
BuildClusters ==
    /\ calc.fn = "orbic"
    /\ \E bitmaps \in BitmapLists :
           \E sorted \in StdSort(FilledClusters(bitmaps)) :
               calc' = [fn |-> "orbic", built |-> TRUE, bitmaps |-> bitmaps,
                        clusters |-> sorted, orders |-> << >>]
    /\ UNCHANGED runVars

\* GetOptimizedOrder(query); the orders returned since the last build are kept
OptimizedOrder ==
    /\ calc.fn = "orbic"
    /\ Len(calc.orders) < MaxQueries
    /\ \E query \in Bitmaps :
           calc' = [calc EXCEPT !.orders =
                       Append(@, [query |-> query,
                                  order |-> GetOptimizedOrder(calc.clusters,
                                                              query)])]
    /\ UNCHANGED runVars

NextOrBiC == BuildClusters \/ OptimizedOrder
SpecOrBiC == InitOrBiC /\ [][NextOrBiC]_vars

\* C24: after BuildClusters on n bitmaps every order GetOptimizedOrder returns
\* is a permutation of 0..n-1 along which the cardinalities of the bitmaps
\* never increase, and it is the same order whatever the query bitmap is.
C24_OrderByCardinalityForAnyQuery ==
    (calc.fn = "orbic" /\ calc.built) =>
        LET n == Len(calc.bitmaps)
        IN  \A k \in 1 .. Len(calc.orders) :
                LET order == calc.orders[k].order
                IN  /\ Len(order) = n
                    /\ {order[i] : i \in 1 .. n} = 0 .. n - 1
                    /\ \A i \in 1 .. n - 1 :
                           Cardinality(calc.bitmaps[order[i] + 1]) >=
                               Cardinality(calc.bitmaps[order[i + 1] + 1])
                    /\ order = calc.orders[1].order

\* three bitmaps of three different cardinalities were clustered and the order
\* was asked for with two different queries
C24_TwoQueriesThreeBitmaps ==
    /\ calc.fn = "orbic"
    /\ calc.built
    /\ Len(calc.bitmaps) = 3
    /\ Cardinality({Cardinality(calc.bitmaps[i]) : i \in 1 .. 3}) = 3
    /\ Cardinality(calc.bitmaps[1]) < Cardinality(calc.bitmaps[3])
    /\ Len(calc.orders) = 2
    /\ calc.orders[1].query # calc.orders[2].query

\* ------------------------------------------------- the locks of a buffer
\* The lock protocol of the cluster buffers at the granularity of single
\* lock operations: taking a lock is one step, the work under it together
\* with the release (deferred or explicit) is the next.  Row counts and
\* memory are not followed here: whether a writer must be rotated, whether
\* memory is above a watermark and whether NewSegmentWriter fails are free
\* choices, so every interleaving of lock operations the run can show is
\* among the ones followed.  getBufferTotalUsedMemorySize takes each buffer
\* lock for one read while its caller holds no buffer lock; these reads
\* change nothing and are left out.
\* rows one mapping task writes
MaxLockRows == 2
\* a lock nobody holds, and the holder id of the flush coordinator
Unheld == 0
CoordID == NumSegments + 1
FlushOwners == {"coord", "orch"}

\* a mutex that is handed out whoever holds it
CanLockAlways(holder, readers) == TRUE

\* RWMutex.Lock succeeds: no writer and no reader holds the lock
CanLock(holder, readers) == holder = Unheld /\ ~readers

\* RWMutex.RLock succeeds: no writer holds the lock
CanRLock(holder) == holder = Unheld

IdleTask == [pc |-> "next", buf |-> 1, rows |-> 0]
\* the flush executions of one buffer: the one the coordinator awaits, the
\* one flushAll awaits, and the ones nobody awaits any more
NoExecs == [coord |-> "none", orch |-> "none", queued |-> 0, persist |-> 0]

\* flushLargestBuffers returns an error: the executions it has submitted
\* are left to themselves
Abandoned(e) ==
    [coord |-> "none", orch |-> e.orch,
     queued |-> e.queued + (IF e.coord = "queued" THEN 1 ELSE 0),
     persist |-> e.persist + (IF e.coord = "persist" THEN 1 ELSE 0)]

InitLocks ==
    /\ InitRun(ValidPlan)
    /\ calc = [fn |-> "locks",
               bufferLock |-> [b \in Buffers |-> Unheld],
               readLock |-> [b \in Buffers |-> FALSE],
               flushLock |-> [b \in Buffers |-> Unheld],
               mutex |-> "free",
               signalled |-> FALSE,
               task |-> [m \in Tasks |-> IdleTask],
               chan |-> << >>,
               co |-> [pc |-> "select", order |-> << >>],
               orch |-> "awaitTasks",
               execs |-> [b \in Buffers |-> NoExecs]]

\* writeToBuffer: clusterBufferLocks.Lock(clusterBuffer.id)
LockWrite(m) ==
    /\ calc.fn = "locks"
    /\ calc.task[m].pc = "next"
    /\ calc.task[m].rows < MaxLockRows
    /\ \E b \in Buffers :
         /\ CanLock(calc.bufferLock[b], calc.readLock[b])
         /\ calc' = [calc EXCEPT !.bufferLock[b] = m,
                                 !.task[m].pc = "write",
                                 !.task[m].buf = b]
    /\ UNCHANGED runVars

\* writeToBuffer: the row is written and the deferred Unlock runs
WriteRow(m) ==
    /\ calc.fn = "locks"
    /\ calc.task[m].pc = "write"
    /\ calc' = [calc EXCEPT !.bufferLock[calc.task[m].buf] = Unheld,
                            !.task[m].pc = "check",
                            !.task[m].rows = @ + 1]
    /\ UNCHANGED runVars

\* mappingSegment: neither condition of the check holds, or it is not due
SkipCheck(m) ==
    /\ calc.fn = "locks"
    /\ calc.task[m].pc = "check"
    /\ calc' = [calc EXCEPT !.task[m].pc = "next"]
    /\ UNCHANGED runVars

\* flushWriterFunc: clusterBufferLocks.Lock(clusterBuffer.id)
LockRotate(m) ==
    /\ calc.fn = "locks"
    /\ calc.task[m].pc = "check"
    /\ CanLock(calc.bufferLock[calc.task[m].buf],
               calc.readLock[calc.task[m].buf])
    /\ calc' = [calc EXCEPT !.bufferLock[calc.task[m].buf] = m,
                            !.task[m].pc = "rotate"]
    /\ UNCHANGED runVars

\* flushWriterFunc: the double check; the writer is rotated when it still
\* holds; Unlock in both branches
RotateWriter(m) ==
    /\ calc.fn = "locks"
    /\ calc.task[m].pc = "rotate"
    /\ \E stillMet \in BOOLEAN :
         calc' = [calc EXCEPT !.bufferLock[calc.task[m].buf] = Unheld,
                              !.task[m].pc =
                                  IF stillMet THEN "send" ELSE "next"]
    /\ UNCHANGED runVars

\* flushWriterFunc: the signal with the rotated writer is sent
SendWriterSignal(m) ==
    /\ calc.fn = "locks"
    /\ calc.task[m].pc = "send"
    /\ Len(calc.chan) < FlushChanCap
    /\ calc' = [calc EXCEPT !.chan = Append(@, [kind |-> "writer",
                                                id |-> calc.task[m].buf]),
                            !.task[m].pc = "next"]
    /\ UNCHANGED runVars

\* mappingSegment: memory above the high watermark and no signal pending
SendPressureSignal(m) ==
    /\ calc.fn = "locks"
    /\ calc.task[m].pc = "check"
    /\ ~calc.signalled
    /\ Len(calc.chan) < FlushChanCap
    /\ calc' = [calc EXCEPT !.chan = Append(@, [kind |-> "pressure",
                                                id |-> 0]),
                            !.signalled = TRUE,
                            !.task[m].pc = "next"]
    /\ UNCHANGED runVars

\* mappingSegment returns: the segment is read to its end
TaskReturns(m) ==
    /\ calc.fn = "locks"
    /\ calc.task[m].pc = "next"
    /\ calc' = [calc EXCEPT !.task[m].pc = "returned"]
    /\ UNCHANGED runVars

\* mapping: every task has returned; the done signal is sent
OrchSendDone ==
    /\ calc.fn = "locks"
    /\ calc.orch = "awaitTasks"
    /\ \A m \in Tasks : calc.task[m].pc = "returned"
    /\ Len(calc.chan) < FlushChanCap
    /\ calc' = [calc EXCEPT !.chan = Append(@, [kind |-> "done", id |-> 0]),
                            !.orch = "awaitAck"]
    /\ UNCHANGED runVars

\* backgroundFlush receives the done signal and acknowledges it; mapping
\* goes on to flushAll
RecvDone ==
    /\ calc.fn = "locks"
    /\ calc.co.pc = "select"
    /\ calc.chan # << >>
    /\ Head(calc.chan).kind = "done"
    /\ calc.orch = "awaitAck"
    /\ calc' = [calc EXCEPT !.chan = Tail(@), !.orch = "flushAll"]
    /\ UNCHANGED runVars

\* flushAll: flushMutex.Lock(), one flushBinlog per buffer is submitted
OrchFlushAll ==
    /\ calc.fn = "locks"
    /\ calc.orch = "flushAll"
    /\ calc.mutex = "free"
    /\ calc' = [calc EXCEPT !.mutex = "orch",
                            !.orch = "flushAllWait",
                            !.execs = [b \in Buffers |->
                                          [@[b] EXCEPT !["orch"] = "queued"]]]
    /\ UNCHANGED runVars

\* flushAll: every submitted flush has returned; deferred Unlock
OrchFlushAllEnd ==
    /\ calc.fn = "locks"
    /\ calc.orch = "flushAllWait"
    /\ \A b \in Buffers : calc.execs[b]["orch"] = "none"
    /\ calc' = [calc EXCEPT !.mutex = "free", !.orch = "end"]
    /\ UNCHANGED runVars

\* backgroundFlush receives a signal with a writer and submits its flush
RecvWriterSignal ==
    /\ calc.fn = "locks"
    /\ calc.co.pc = "select"
    /\ calc.chan # << >>
    /\ Head(calc.chan).kind = "writer"
    /\ calc.execs[Head(calc.chan).id]["coord"] = "none"
    /\ calc' = [calc EXCEPT !.chan = Tail(@),
                            !.co.pc = "await",
                            !.execs[Head(calc.chan).id]["coord"] = "queued"]
    /\ UNCHANGED runVars

\* backgroundFlush receives a signal without a writer: hasSignal is
\* cleared; flushLargestBuffers returns at once when TryLock fails or
\* memory is at or below the low watermark
RecvPressure ==
    /\ calc.fn = "locks"
    /\ calc.co.pc = "select"
    /\ calc.chan # << >>
    /\ Head(calc.chan).kind = "pressure"
    /\ \E aboveLow \in BOOLEAN :
         calc' = IF calc.mutex = "free" /\ aboveLow
                 THEN [calc EXCEPT !.chan = Tail(@),
                                   !.signalled = FALSE,
                                   !.mutex = "coord",
                                   !.co = [pc |-> "sample",
                                           order |-> [i \in 1 .. NumBuffers |-> i]]]
                 ELSE [calc EXCEPT !.chan = Tail(@), !.signalled = FALSE]
    /\ UNCHANGED runVars

\* flushLargestBuffers: clusterBufferLocks.RLock(buffer.id)
SampleRLock ==
    /\ calc.fn = "locks"
    /\ calc.co.pc = "sample"
    /\ CanRLock(calc.bufferLock[Head(calc.co.order)])
    /\ calc' = [calc EXCEPT !.readLock[Head(calc.co.order)] = TRUE,
                            !.co.pc = "sampled"]
    /\ UNCHANGED runVars

\* flushLargestBuffers: the row count is read, RUnlock; after the last
\* buffer the ids are sorted into some order
SampleRUnlock ==
    /\ calc.fn = "locks"
    /\ calc.co.pc = "sampled"
    /\ \E o \in [1 .. NumBuffers -> Buffers] :
         /\ \A b \in Buffers : \E i \in 1 .. NumBuffers : o[i] = b
         /\ calc' = [calc EXCEPT
                        !.readLock[Head(calc.co.order)] = FALSE,
                        !.co = IF Tail(calc.co.order) = << >>
                               THEN [pc |-> "retire", order |-> o]
                               ELSE [pc |-> "sample",
                                     order |-> Tail(calc.co.order)]]
    /\ UNCHANGED runVars

\* flushLargestBuffers: clusterBufferLocks.Lock(bufferId)
LockRetire ==
    /\ calc.fn = "locks"
    /\ calc.co.pc = "retire"
    /\ CanLock(calc.bufferLock[Head(calc.co.order)],
               calc.readLock[Head(calc.co.order)])
    /\ calc' = [calc EXCEPT !.bufferLock[Head(calc.co.order)] = CoordID,
                            !.co.pc = "retiring"]
    /\ UNCHANGED runVars

\* flushLargestBuffers: refreshBufferWriter, Unlock, the flush of the
\* retired writer is submitted; the loop ends at the low watermark or
\* after the last buffer
RetireWriter ==
    /\ calc.fn = "locks"
    /\ calc.co.pc = "retiring"
    /\ calc.execs[Head(calc.co.order)]["coord"] = "none"
    /\ \E reachedLow \in BOOLEAN :
         calc' = [calc EXCEPT
                     !.bufferLock[Head(calc.co.order)] = Unheld,
                     !.execs[Head(calc.co.order)]["coord"] = "queued",
                     !.co = IF reachedLow \/ Tail(calc.co.order) = << >>
                            THEN [pc |-> "await", order |-> << >>]
                            ELSE [pc |-> "retire",
                                  order |-> Tail(calc.co.order)]]
    /\ UNCHANGED runVars

\* flushLargestBuffers: refreshBufferWriter fails; Unlock, the error is
\* returned without awaiting the flushes already submitted, the deferred
\* flushMutex.Unlock runs
RetireFails ==
    /\ calc.fn = "locks"
    /\ calc.co.pc = "retiring"
    /\ calc' = [calc EXCEPT !.bufferLock[Head(calc.co.order)] = Unheld,
                            !.mutex = "free",
                            !.execs = [b \in Buffers |-> Abandoned(@[b])],
                            !.co = [pc |-> "select", order |-> << >>]]
    /\ UNCHANGED runVars

\* conc.AwaitAll returns in backgroundFlush or flushLargestBuffers: every
\* flush the coordinator submitted has returned; flushLargestBuffers
\* releases flushMutex
CoordAwaited ==
    /\ calc.fn = "locks"
    /\ calc.co.pc = "await"
    /\ \A b \in Buffers : calc.execs[b]["coord"] = "none"
    /\ calc' = [calc EXCEPT
                   !.mutex = IF @ = "coord" THEN "free" ELSE @,
                   !.co = [pc |-> "select", order |-> << >>]]
    /\ UNCHANGED runVars

\* flushBinlog: buffer.flushLock.Lock()
PersistLock(b, o) ==
    /\ calc.fn = "locks"
    /\ calc.execs[b][o] = "queued"
    /\ CanLock(calc.flushLock[b], FALSE)
    /\ calc' = [calc EXCEPT !.flushLock[b] = IF o = "coord" THEN CoordID ELSE 1,
                            !.execs[b][o] = "persist"]
    /\ UNCHANGED runVars

\* flushBinlog: the writer is persisted, the deferred Unlock runs, the
\* future completes
PersistEnd(b, o) ==
    /\ calc.fn = "locks"
    /\ calc.execs[b][o] = "persist"
    /\ calc' = [calc EXCEPT !.flushLock[b] = Unheld,
                            !.execs[b][o] = "none"]
    /\ UNCHANGED runVars

\* flushBinlog of an execution nobody awaits: buffer.flushLock.Lock()
AbandonedPersistLock(b) ==
    /\ calc.fn = "locks"
    /\ calc.execs[b].queued > 0
    /\ CanLock(calc.flushLock[b], FALSE)
    /\ calc' = [calc EXCEPT !.flushLock[b] = CoordID,
                            !.execs[b].queued = @ - 1,
                            !.execs[b].persist = @ + 1]
    /\ UNCHANGED runVars

\* flushBinlog of an execution nobody awaits ends; the deferred Unlock runs
AbandonedPersistEnd(b) ==
    /\ calc.fn = "locks"
    /\ calc.execs[b].persist > 0
    /\ calc' = [calc EXCEPT !.flushLock[b] = Unheld,
                            !.execs[b].persist = @ - 1]
    /\ UNCHANGED runVars

NextLocks ==
    \/ \E m \in Tasks :
         \/ LockWrite(m)
         \/ WriteRow(m)
         \/ SkipCheck(m)
         \/ LockRotate(m)
         \/ RotateWriter(m)
         \/ SendWriterSignal(m)
         \/ SendPressureSignal(m)
         \/ TaskReturns(m)
    \/ OrchSendDone
    \/ RecvDone
    \/ OrchFlushAll
    \/ OrchFlushAllEnd
    \/ RecvWriterSignal
    \/ RecvPressure
    \/ SampleRLock
    \/ SampleRUnlock
    \/ LockRetire
    \/ RetireWriter
    \/ RetireFails
    \/ CoordAwaited
    \/ \E b \in Buffers, o \in FlushOwners :
         \/ PersistLock(b, o)
         \/ PersistEnd(b, o)
    \/ \E b \in Buffers :
         \/ AbandonedPersistLock(b)
         \/ AbandonedPersistEnd(b)

SpecLocks == InitLocks /\ [][NextLocks]_vars

\* who is writing a row into, rotating or retiring the writer of buffer b
InBufferSection(b) ==
    {m \in Tasks : calc.task[m].buf = b /\ calc.task[m].pc \in {"write", "rotate"}}
        \cup (IF calc.co.pc = "retiring" /\ Head(calc.co.order) = b
              THEN {CoordID} ELSE {})

\* the number of flush executions that are persisting a writer of buffer b
Persisting(b) ==
    Cardinality({o \in FlushOwners : calc.execs[b][o] = "persist"})
        + calc.execs[b].persist

\* C25: for each cluster buffer at most one of the row writes, rotations and
\* flush-largest retirements is under way at any time, whoever is in one
\* holds the buffer's lock exclusively, and at most one flush execution is
\* persisting a writer of the buffer.
C25_BufferSectionsExclusive ==
    calc.fn = "locks" =>
        \A b \in Buffers :
            /\ Cardinality(InBufferSection(b)) <= 1
            /\ \A who \in InBufferSection(b) :
                   calc.bufferLock[b] = who /\ ~calc.readLock[b]
            /\ Persisting(b) <= 1

\* a mapping task has written into a buffer and may rotate its writer while
\* flush-largest is retiring that writer, one flush execution of the buffer
\* is persisting and another one is waiting for the flush lock
C25_RotationWaitsForRetirement ==
    /\ calc.fn = "locks"
    /\ \E b \in Buffers, m \in Tasks :
         /\ calc.co.pc = "retiring"
         /\ Head(calc.co.order) = b
         /\ calc.task[m].pc = "check"
         /\ calc.task[m].buf = b
         /\ Persisting(b) = 1
         /\ calc.execs[b].queued > 0

\* ------------------------------------------------------ C26: hand-over
\* the step builds the rotation signal of task m
HandedByRotation(m) ==
    signal[m].kind # "writer" /\ signal'[m].kind = "writer"

\* the step submits the flush of the writer flushLargestBuffers retires
\* from buffer b
HandedByFlushLargest(b) ==
    coord.pc = "retire" /\ ~inflight[b].busy /\ inflight'[b].busy

\* after the step buffer b holds a new, empty writer that has not been
\* handed over
SuccessorInstalled(b) ==
    /\ ~buffers'[b].handed
    /\ buffers'[b].writer = NewSegmentWriter(buffers'[b].writer.seg)

\* the step writes a row into the writer buffer b holds
RowWritten(b) ==
    /\ b \in DOMAIN buffers
    /\ b \in DOMAIN buffers'
    /\ buffers'[b].writer = Write(buffers[b].writer)

\* C26: whenever a writer is handed to the flush path by a rotation signal or
\* by flush-largest, the same step under the buffer lock has installed a
\* fresh successor as the buffer's writer, and no row is written into a
\* writer that has been handed over.
C26_SuccessorBeforeHandOver ==
    [][/\ \A m \in Tasks :
            HandedByRotation(m) => SuccessorInstalled(signal'[m].id)
       /\ \A b \in Buffers :
            /\ HandedByFlushLargest(b) => SuccessorInstalled(b)
            /\ RowWritten(b) => ~buffers[b].handed]_vars

\* ------------------------------------------- C27, C28: flush-largest
\* backgroundFlush is about to receive a flush-pressure signal
PressureSignalNext ==
    /\ coord.pc = "select"
    /\ flushChan # << >>
    /\ Head(flushChan).kind = "pressure"

\* C27: a flush-largest pass that finds the aggregate memory at or below the
\* low watermark replaces no writer, submits no flush and leaves the buffers
\* (writers, counters, flushed binlogs), the segment id allocator and the
\* flush mutex as they are, and backgroundFlush is back at its select.
C27_PassBelowLowWatermarkIsNoOp ==
    [][(/\ CoordFlushLargest
        /\ getBufferTotalUsedMemorySize <= getMemoryBufferLowWatermark)
          => /\ UNCHANGED << buffers, inflight, nextSegID, flushMutex >>
             /\ coord' = CoordSelect]_vars

\* a flush-pressure signal is about to be received when every row written so
\* far has been flushed: flushLargestBuffers can take the mutex and finds the
\* memory at the low watermark
C27_PressureSignalAfterMemoryDropped ==
    /\ PressureSignalNext
    /\ TryLock
    /\ writtenRowNum > 0
    /\ \E b \in Buffers : buffers[b].flushedBinlogs # {}
    /\ getBufferTotalUsedMemorySize <= getMemoryBufferLowWatermark

C29_EmptyWriterFlush ==
    [][\A b \in Buffers :
          (FlushDone(b) /\ GetRowNum(inflight[b].writer) = 0) =>
              LET seg == inflight[b].writer.seg
                  old == buffers[b]
                  new == buffers'[b]
              IN  /\ UNCHANGED uploads
                  /\ new.flushedRowNum = old.flushedRowNum
                  /\ new.bufferMemorySize = old.bufferMemorySize
                  /\ new.writer = old.writer
                  /\ IF inflight[b].pack /\ seg \in old.flushedBinlogs
                     THEN /\ new.flushedBinlogs = old.flushedBinlogs \ {seg}
                          /\ new.uploadedSegments =
                                Append(old.uploadedSegments,
                                       [seg |-> seg,
                                        rows |-> old.flushedRowNum[seg]])
                     ELSE new = old]_vars

\* the pack flush of a writer without rows is submitted for a segment id under
\* which rows were flushed earlier
C29_EmptyWriterPackPending ==
    \E b \in Buffers :
        /\ inflight[b].busy
        /\ inflight[b].pack
        /\ GetRowNum(inflight[b].writer) = 0
        /\ inflight[b].writer.seg \in buffers[b].flushedBinlogs
        /\ buffers[b].flushedRowNum[inflight[b].writer.seg] > 0

LastBucket(buckets) == buckets[Len(buckets)]

\* C31: a scalar plan always ends with the bucket that was accumulating when
\* the scan ended, also when that bucket is empty: the list has at least one
\* bucket; without keys it is one empty bucket; when the last key closed a
\* bucket (its count alone, or together with the accumulated rows, is above
\* the preferred size) the last bucket is empty, otherwise it holds the last
\* key; and every bucket, the empty ones too, gets a cluster buffer.
C31_FinalBucketAlwaysEmitted ==
    ScalarPlanned =>
        LET buckets == calc.planned.buckets
            dict == calc.call.dict
            n == Len(dict)
        IN  /\ Len(buckets) >= 1
            /\ ScalarClusterBuffers(calc.planned) = Len(buckets)
            /\ n = 0 => buckets = << << >> >>
            /\ n > 0 =>
                 /\ dict[n] > calc.planned.preferRows
                       => LastBucket(buckets) = << >>
                 /\ LastBucket(buckets) # << >>
                       => LastBucket(buckets)[Len(LastBucket(buckets))] = n
                 /\ LastBucket(buckets) = << >>
                       => n \in KeysOf(buckets[Len(buckets) - 1])

\* a plan of three buckets whose last key closed the second bucket: the last
\* bucket is empty and is counted as a cluster buffer
C31_PlanEndsWithEmptyBucket ==
    /\ ScalarPlanned
    /\ Len(calc.call.dict) = 3
    /\ Len(calc.planned.buckets) = 3
    /\ calc.planned.buckets[2] # << >>
    /\ LastBucket(calc.planned.buckets) = << >>
    /\ ScalarClusterBuffers(calc.planned) = 3


\* ------------------------------------------------- the scalar analysis
\* largest non-null clustering key of an analysed row
MaxAnalyzeKey == 2
\* largest number of rows of an analysed segment
MaxAnalyzeRows == 2
\* number of input segments of the analysis
NumAnalyzeSegments == 2

\* the key nil of a row whose clustering key is null
NullKey == 0
\* the nil *ClusterBuffer
NilBuffer == -1

AnalyzeSegments == 1 .. NumAnalyzeSegments
AnalyzeRows == [key : 0 .. MaxAnalyzeKey, deleted : BOOLEAN, expired : BOOLEAN]
RowLists == UNION {[1 .. n -> AnalyzeRows] : n \in 0 .. MaxAnalyzeRows}
\* an input segment: the number of binlogs of its first field and its rows
SegmentBinlogs == {[binlogNum |-> 0, rows |-> << >>]} \cup
                  [binlogNum : {1}, rows : RowLists]

\* a filter with the delete set of the segment
WithDeleteSet(row) == Filtered(row)

\* scalarAnalyzeSegment, line 1188: NewEntityFilter(nil, ttl, currentTime)
\* has no delete set, it drops the expired rows only
expiredFilter(row) == row.expired

\* scalarAnalyzeSegment, lines 1203-1243: the loop over the rows from i on
RECURSIVE AnalyzeFrom(_, _, _)
AnalyzeFrom(analyzeResult, rows, i) ==
    IF i > Len(rows) THEN analyzeResult
    ELSE LET key == rows[i].key
         IN  IF expiredFilter(rows[i])
             THEN AnalyzeFrom(analyzeResult, rows, i + 1)
             ELSE IF key \in DOMAIN analyzeResult
             THEN AnalyzeFrom([analyzeResult EXCEPT ![key] = @ + 1],
                              rows, i + 1)
             ELSE AnalyzeFrom(analyzeResult @@ (key :> 1), rows, i + 1)

\* scalarAnalyzeSegment: an illegal-plan error without binlogs
scalarAnalyzeSegment(segment) ==
    IF segment.binlogNum = 0
    THEN [err |-> "illegal", analyzeResult |-> << >>]
    ELSE [err |-> "nil",
          analyzeResult |-> AnalyzeFrom(<< >>, segment.rows, 1)]

\* a merge that stores the count of the last segment
MergeLastWins(analyzeDict, analyzeResult) == analyzeResult @@ analyzeDict

\* scalarAnalyze, lines 1129-1131: analyzeDict[key] += v for every key of
\* the result of one segment
MergeResult(analyzeDict, analyzeResult) ==
    [key \in DOMAIN analyzeDict \cup DOMAIN analyzeResult |->
        (IF key \in DOMAIN analyzeDict THEN analyzeDict[key] ELSE 0)
        + (IF key \in DOMAIN analyzeResult THEN analyzeResult[key] ELSE 0)]

\* the sum of the counts of a dictionary
RECURSIVE SumCounts(_, _)
SumCounts(dict, keys) ==
    IF keys = {} THEN 0
    ELSE LET k == CHOOSE k \in keys : TRUE
         IN  dict[k] + SumCounts(dict, keys \ {k})

\* sort.Slice of splitClusterByScalarValue: the keys in ascending order
RECURSIVE SortKeys(_)
SortKeys(keys) ==
    IF keys = {} THEN << >>
    ELSE LET least == CHOOSE k \in keys : \A o \in keys : k <= o
         IN  << least >> \o SortKeys(keys \ {least})

\* a dictionary that is never found to hold the null key
containsNullNever(keys, notNullKeys) == FALSE

\* splitClusterByScalarValue, line 1312
containsNull(keys, notNullKeys) == Cardinality(keys) > Len(notNullKeys)

\* splitClusterByScalarValue over analyzeDict under the budgets of c: the
\* buckets hold keys
splitClusterByScalarValue(analyzeDict, c) ==
    LET keys == DOMAIN analyzeDict
        totalRows == SumCounts(analyzeDict, keys)
        notNullKeys == SortKeys(keys \ {NullKey})
        counts == [i \in 1 .. Len(notNullKeys) |-> analyzeDict[notNullKeys[i]]]
        policy == switchPolicyForTotal(totalRows, [c EXCEPT !.dict = counts])
    IN  [buckets |-> [b \in 1 .. Len(policy.buckets) |->
                        [j \in 1 .. Len(policy.buckets[b]) |->
                            notNullKeys[policy.buckets[b][j]]]],
         containsNull |-> containsNull(keys, notNullKeys)]

\* getScalarAnalyzeResult, lines 313-335: the loop over the buckets from
\* the 0-based id on; a buffer is named by its position in t.clusterBuffers
RECURSIVE BucketBuffers(_, _, _)
BucketBuffers(st, buckets, id) ==
    IF id >= Len(buckets) THEN st
    ELSE LET bucket == buckets[id + 1]
             buffer == Len(st.clusterBuffers)
         IN  BucketBuffers(
                 [clusterBuffers |->
                      Append(st.clusterBuffers, [id |-> id, bucket |-> bucket]),
                  scalarToClusterBufferMap |->
                      [key \in KeysOf(bucket) |-> buffer]
                          @@ st.scalarToClusterBufferMap],
                 buckets, id + 1)

\* a null buffer that takes the id of the last bucket
nullBufferIDOfLast(buckets) == Len(buckets) - 1

\* getScalarAnalyzeResult, line 343: the id of the null buffer
nullBufferID(buckets) == Len(buckets)

\* getScalarAnalyzeResult, lines 312-364, after scalarAnalyze has returned
\* analyzeDict
getScalarAnalyzeResult(analyzeDict, c) ==
    LET split == splitClusterByScalarValue(analyzeDict, c)
        st == BucketBuffers([clusterBuffers |-> << >>,
                             scalarToClusterBufferMap |-> << >>],
                            split.buckets, 0)
    IN  [buckets |-> split.buckets,
         clusterBuffers |->
             IF split.containsNull
             THEN Append(st.clusterBuffers,
                         [id |-> nullBufferID(split.buckets),
                          bucket |-> << >>])
             ELSE st.clusterBuffers,
         scalarToClusterBufferMap |-> st.scalarToClusterBufferMap,
         nullBuffer |-> IF split.containsNull THEN Len(st.clusterBuffers)
                        ELSE NilBuffer]

\* keyToBufferFunc, lines 357-363
keyToBufferFunc(key, built) ==
    IF key = NullKey THEN built.nullBuffer
    ELSE IF key \in DOMAIN built.scalarToClusterBufferMap
    THEN built.scalarToClusterBufferMap[key]
    ELSE NilBuffer

\* the budgets of the analysed plans
AnalyzeBudgets ==
    [memoryBufferSize : {expectedBinlogSize, 4 * expectedBinlogSize},
     maxSegmentRows : {2}, preferSegmentRows : {1}, preferRatio : {50},
     dict : {<< >>}]

NoResult == [err |-> "none", analyzeResult |-> << >>]
NotResolved == [segment |-> 0, offset |-> 0, key |-> NullKey,
                buffer |-> NilBuffer]
\* no FlushSignal of the resolved buffer; owner is history, the position
\* of the buffer whose writer the signal carries
NoFlushSignal == [owner |-> NilBuffer, id |-> NilBuffer]

InitAnalyze ==
    /\ InitRun(ValidPlan)
    /\ \E segments \in [AnalyzeSegments -> SegmentBinlogs],
          c \in AnalyzeBudgets :
          calc = [fn |-> "analyze", segments |-> segments, budgets |-> c,
                  results |-> [s \in AnalyzeSegments |-> NoResult],
                  merged |-> {}, analyzeDict |-> << >>,
                  state |-> "analyzing", built |-> << >>,
                  resolved |-> NotResolved, flushSignal |-> NoFlushSignal,
                  selected |-> NoBuffer]

\* scalarAnalyze, line 1123: the task of segment s runs scalarAnalyzeSegment
AnalyzeSegment(s) ==
    /\ calc.fn = "analyze"
    /\ calc.state = "analyzing"
    /\ calc.results[s] = NoResult
    /\ calc' = [calc EXCEPT
                  !.results[s] = scalarAnalyzeSegment(calc.segments[s])]
    /\ UNCHANGED runVars

\* scalarAnalyze, lines 1127-1133: under the mutex the task of segment s
\* adds its result to analyzeDict and returns its error
MergeSegment(s) ==
    /\ calc.fn = "analyze"
    /\ calc.state = "analyzing"
    /\ calc.results[s] # NoResult
    /\ s \notin calc.merged
    /\ calc' = [calc EXCEPT
                  !.merged = @ \cup {s},
                  !.analyzeDict =
                      MergeResult(@, calc.results[s].analyzeResult)]
    /\ UNCHANGED runVars

\* scalarAnalyze, line 1137, and getScalarAnalyzeResult: every task is
\* awaited; an error is returned, otherwise the buffers are built
BuildBuffers ==
    /\ calc.fn = "analyze"
    /\ calc.state = "analyzing"
    /\ calc.merged = AnalyzeSegments
    /\ IF \E s \in AnalyzeSegments : calc.results[s].err # "nil"
       THEN calc' = [calc EXCEPT !.state = "failed"]
       ELSE calc' = [calc EXCEPT
                       !.state = "built",
                       !.built = getScalarAnalyzeResult(calc.analyzeDict,
                                                        calc.budgets)]
    /\ UNCHANGED runVars

\* mappingSegment, lines 650-665: a row that passes the filter with the
\* delete set of its segment is resolved to its buffer
ResolveRow(s, offset) ==
    /\ calc.fn = "analyze"
    /\ calc.state = "built"
    /\ calc.flushSignal = NoFlushSignal
    /\ offset \in 1 .. Len(calc.segments[s].rows)
    /\ LET row == calc.segments[s].rows[offset]
       IN  /\ ~WithDeleteSet(row)
           /\ calc' = [calc EXCEPT
                         !.resolved = [segment |-> s, offset |-> offset,
                                       key |-> row.key,
                                       buffer |-> keyToBufferFunc(row.key,
                                                                  calc.built)]]
    /\ UNCHANGED runVars

\* flushWriterFunc, lines 672-692: the writer of the buffer the row was
\* resolved to is rotated and sent with the id of that buffer
SignalResolved ==
    /\ calc.fn = "analyze"
    /\ calc.state = "built"
    /\ calc.resolved # NotResolved
    /\ calc.resolved.buffer # NilBuffer
    /\ calc.flushSignal = NoFlushSignal
    /\ calc' = [calc EXCEPT
                  !.flushSignal =
                      [owner |-> calc.resolved.buffer,
                       id |-> calc.built.clusterBuffers[
                                  calc.resolved.buffer + 1].id]]
    /\ UNCHANGED runVars

\* backgroundFlush, line 807: t.clusterBuffers[signal.id], a panic when
\* the id is no index of the list
SelectSignalled ==
    /\ calc.fn = "analyze"
    /\ calc.state = "built"
    /\ calc.flushSignal # NoFlushSignal
    /\ calc.selected = NoBuffer
    /\ calc' = [calc EXCEPT
                  !.selected =
                      IF calc.flushSignal.id \in
                             0 .. Len(calc.built.clusterBuffers) - 1
                      THEN [panic |-> FALSE, buffer |-> calc.flushSignal.id]
                      ELSE IndexOutOfRange]
    /\ UNCHANGED runVars

NextAnalyze ==
    \/ \E s \in AnalyzeSegments : AnalyzeSegment(s)
    \/ \E s \in AnalyzeSegments : MergeSegment(s)
    \/ BuildBuffers
    \/ \E s \in AnalyzeSegments, offset \in 1 .. MaxAnalyzeRows :
          ResolveRow(s, offset)
    \/ SignalResolved
    \/ SelectSignalled
SpecAnalyze == InitAnalyze /\ [][NextAnalyze]_vars

AnalyzeBuilt == calc.fn = "analyze" /\ calc.state = "built"

\* the rows of the analysed segments that satisfy keep
AnalysedRows(keep(_)) ==
    {sr \in AnalyzeSegments \X (1 .. MaxAnalyzeRows) :
        /\ sr[2] <= Len(calc.segments[sr[1]].rows)
        /\ keep(calc.segments[sr[1]].rows[sr[2]])}
NotExpired(row) == ~row.expired
NotFiltered(row) == ~Filtered(row)
KeyIs(rowSet, key) ==
    {sr \in rowSet : calc.segments[sr[1]].rows[sr[2]].key = key}

\* C32: after the scalar analysis there is one cluster buffer per bucket,
\* plus one null buffer exactly when an analysed row has a null key; every
\* analysed key maps to the buffer of the bucket that holds it, null maps
\* to the null buffer, and a row that passes the mapping filter resolves
\* to a buffer of the list.
C32_KeysResolveToBuffers ==
    AnalyzeBuilt =>
        LET built == calc.built
            n == Len(built.clusterBuffers)
            analysed == AnalysedRows(NotExpired)
            hasNull == KeyIs(analysed, NullKey) # {}
        IN  /\ n = Len(built.buckets) + (IF hasNull THEN 1 ELSE 0)
            /\ hasNull <=> built.nullBuffer # NilBuffer
            /\ hasNull => /\ built.nullBuffer = n - 1
                          /\ built.clusterBuffers[n].bucket = << >>
            /\ \A sr \in analysed :
                  LET key == calc.segments[sr[1]].rows[sr[2]].key
                  IN  key # NullKey =>
                        /\ key \in DOMAIN built.scalarToClusterBufferMap
                        /\ LET b == built.scalarToClusterBufferMap[key]
                           IN  /\ b \in 0 .. Len(built.buckets) - 1
                               /\ key \in KeysOf(built.buckets[b + 1])
                               /\ built.clusterBuffers[b + 1].bucket
                                      = built.buckets[b + 1]
            /\ calc.resolved # NotResolved =>
                  /\ calc.resolved.buffer \in 0 .. n - 1
                  /\ calc.resolved.key = NullKey
                        => calc.resolved.buffer = n - 1
                  /\ calc.resolved.key # NullKey
                        => calc.resolved.key \in
                             KeysOf(built.clusterBuffers[
                                        calc.resolved.buffer + 1].bucket)

\* a row with a null key is resolved to the null buffer, which follows the
\* buffers of two buckets
C32_NullRowResolved ==
    /\ AnalyzeBuilt
    /\ calc.resolved # NotResolved
    /\ calc.resolved.key = NullKey
    /\ calc.resolved.buffer = 2
    /\ Len(calc.built.clusterBuffers) = 3

\* ------------------------------------------ C33: the merged histogram
\* every analyze task has merged its result and none returned an error
AnalyzeMerged ==
    /\ calc.fn = "analyze"
    /\ calc.merged = AnalyzeSegments
    /\ \A s \in AnalyzeSegments : calc.results[s].err = "nil"

\* the number of rows of rowSet per key value
Histogram(rowSet) ==
    [key \in {calc.segments[sr[1]].rows[sr[2]].key : sr \in rowSet} |->
        Cardinality(KeyIs(rowSet, key))]

\* C33: the merged histogram maps each key value to the number of rows of
\* all input segments with that value that are neither deleted nor
\* expired, whatever the order in which the analyze tasks ran and merged.
C33_HistogramOfUnfilteredRows ==
    AnalyzeMerged => calc.analyzeDict = Histogram(AnalysedRows(NotFiltered))

\* C33, amended: the merged histogram maps each key value, null included,
\* to the number of rows of all input segments with that value that are
\* not expired, deleted rows included, whatever the order in which the
\* analyze tasks ran and merged.
C33_HistogramOfUnexpiredRows ==
    AnalyzeMerged => calc.analyzeDict = Histogram(AnalysedRows(NotExpired))

\* both segments hold an unexpired row of key 1, one of them deleted, and
\* both tasks have merged
C33_DeletedRowCounted ==
    /\ AnalyzeMerged
    /\ calc.state = "analyzing"
    /\ \A s \in AnalyzeSegments :
          /\ Len(calc.segments[s].rows) = 1
          /\ calc.segments[s].rows[1].key = 1
          /\ ~calc.segments[s].rows[1].expired
    /\ calc.segments[1].rows[1].deleted
    /\ ~calc.segments[2].rows[1].deleted
    /\ calc.analyzeDict = (1 :> 2)

\* --------------------------------------------- C34: the list of buffers
\* the ids of t.clusterBuffers are the positions, the null buffer is last
\* and a signalled id selects the buffer whose writer the signal carries
IdsArePositions ==
    AnalyzeBuilt =>
        LET list == calc.built.clusterBuffers
        IN  /\ \A i \in 1 .. Len(list) : list[i].id = i - 1
            /\ calc.built.nullBuffer # NilBuffer
                  => calc.built.nullBuffer = Len(list) - 1
            /\ calc.selected # NoBuffer
                  => /\ ~calc.selected.panic
                     /\ calc.selected.buffer = calc.flushSignal.owner

\* t.clusterBuffers is empty until the buffers are built, and a step of
\* the mapping or of the flush coordinator leaves it as it is
ListBuiltOnce ==
    /\ calc.fn = "analyze" /\ calc.state # "built" => calc.built = << >>
    /\ AnalyzeBuilt => calc'.built = calc.built

\* C34: the list of cluster buffers is built during Analyze and is not
\* extended, shrunk or reordered afterwards; the id of a buffer is its
\* index in the list (0 .. n - 1, the null buffer last), so the id of a
\* flush signal selects the buffer that owned the signalled writer.
C34_IdSelectsOwner == [] IdsArePositions /\ [][ListBuiltOnce]_vars

\* the signal of the null buffer, the third of the list, has selected it
C34_NullBufferSelected ==
    /\ AnalyzeBuilt
    /\ Len(calc.built.clusterBuffers) = 3
    /\ calc.flushSignal.owner = calc.built.nullBuffer
    /\ calc.selected.buffer = 2

\* ------------------------------------------ C35: the tracked memory
RECURSIVE SignalledMemory(_, _)
SignalledMemory(signals, b) ==
    IF signals = << >> THEN 0
    ELSE (IF Head(signals).kind = "writer" /\ Head(signals).id = b
          THEN WrittenMemorySize(Head(signals).writer) ELSE 0)
         + SignalledMemory(Tail(signals), b)

\* the memory of the writers retired from buffer b whose flush has not
\* completed: those of the signals the tasks hold or have sent, and the
\* one the flush coordinator has submitted
RetiredUnflushed(b) ==
    SignalledMemory([m \in Tasks |-> signal[m]], b)
    + SignalledMemory(flushChan, b)
    + (IF inflight[b].busy /\ stage # "flushAllWait"
       THEN WrittenMemorySize(inflight[b].writer) ELSE 0)

\* C35: bufferMemorySize of a buffer is the total memory of its retired
\* writers whose flush has not completed, and is never negative, flush-all
\* of the active writers included.
C35_TrackedMemoryOfRetiredWriters ==
    \A b \in DOMAIN buffers :
        /\ buffers[b].bufferMemorySize = RetiredUnflushed(b)
        /\ buffers[b].bufferMemorySize >= 0

\* ------------------------------------------------ C36: packed once
\* the segment ids that have been packed
PackedIDs ==
    IF buffers = << >> THEN {}
    ELSE SegmentIDsOf(resultSegments(buffers, NumBuffers))

\* the segment ids of the active writers and of the retired writers whose
\* flush has not completed
WriterSignals(signals) ==
    {signals[i].writer.seg :
        i \in {j \in DOMAIN signals : signals[j].kind = "writer"}}
CarriedIDs ==
    {buffers[b].writer.seg : b \in DOMAIN buffers}
    \cup WriterSignals(signal) \cup WriterSignals(flushChan)
    \cup {inflight[b].writer.seg : b \in {d \in Buffers : inflight[d].busy}}

\* the output segments have pairwise distinct ids and, until flush-all
\* flushes the active writers, no writer carries a packed id
PackedOnce ==
    /\ buffers # << >> =>
          Cardinality(PackedIDs) = Len(resultSegments(buffers, NumBuffers))
    /\ stage \in {"mapping", "drainWait", "flushAll"} =>
          PackedIDs \cap CarriedIDs = {}

\* a rotation signal is built with pack = true only in a step that stores
\* a successor with a newly allocated segment id
PackOnlyWithNewID ==
    \A m \in Tasks :
        HandedByRotation(m) /\ signal'[m].pack =>
            /\ nextSegID' = nextSegID + 1
            /\ buffers'[signal'[m].id].writer = NewSegmentWriter(nextSegID)

\* C36: no segment id is packed more than once: the output segments of all
\* buffers have pairwise distinct ids, a packed id is carried by no active
\* or retired, unflushed writer, and a rotation signal has pack = true only
\* when the successor writer got a newly allocated segment id.
C36_NoSegmentPackedTwice == [] PackedOnce /\ [][PackOnlyWithNewID]_vars

\* ------------------------------------------- C37: return on cancellation
\* the runs whose only fault is the cancellation of the external context.
\* Compact, the flush coordinator, the flush pool and every mapping task
\* are goroutines of their own: each of them takes a step it can take.
CoordinatorOrExit == Running /\ (Coordinator \/ CoordExitCancelled)
MappingTaskOrExit(m) == Running /\ (MappingTask(m) \/ MapWaitCancelled(m))
NextCancel ==
    \/ Orchestrator
    \/ CoordinatorOrExit
    \/ Running /\ FlushPool
    \/ \E m \in Tasks : MappingTaskOrExit(m)
    \/ Cancel
FairCancel ==
    /\ WF_vars(Orchestrator)
    /\ WF_vars(CoordinatorOrExit)
    /\ WF_vars(Running /\ FlushPool)
    /\ \A m \in Tasks : WF_vars(MappingTaskOrExit(m))
SpecCancel == Init /\ [][NextCancel]_vars /\ FairCancel

\* C37: if the external context is cancelled while Compact is running,
\* Compact eventually returns; no send of a flush signal or of the
\* drain-all request and no wait for its acknowledgement blocks forever
\* once the flush coordinator has exited.
C37_CancelledCompactReturns == (ctxDone /\ ~Returned_) ~> Returned_

\* ------------------------------------------------------- C38: Stop()
\* Stop(), line 169: t.cancel(); the caller goes on to receive from t.done.
\* The calls of Stop() that are followed are those made after Complete().
StopCalled == [fn |-> "stop"]
StopReturned == [fn |-> "stopped"]
StopCancel ==
    /\ calc = NoCalc
    /\ completed
    /\ calc' = StopCalled
    /\ ctxDone' = TRUE
    /\ UNCHANGED << uploads, plan, stage, buffers, nextSegID, flushChan,
                    hasSignal, flushMutex, inflight, flushAllErr, coord, pc,
                    remained, target, signal, polls, writtenRowNum,
                    doneTokens, completed, keptRows, sawFiltered, flushFailed,
                    ioIssued, faults >>

\* Stop(), line 170: <-t.done takes the token and Stop returns
StopReceive ==
    /\ calc = StopCalled
    /\ doneTokens > 0
    /\ doneTokens' = doneTokens - 1
    /\ calc' = StopReturned
    /\ UNCHANGED << uploads, plan, stage, buffers, nextSegID, flushChan,
                    hasSignal, flushMutex, inflight, flushAllErr, coord, pc,
                    remained, target, signal, polls, writtenRowNum, ctxDone,
                    completed, keptRows, sawFiltered, flushFailed, ioIssued,
                    faults >>

\* the runs in which Complete() and Stop() are called; the flush
\* coordinator and the tasks in the wait-loop receive from ctx.Done() and
\* from t.done as well. Every goroutine takes a step it can take.
CoordinatorOrStop == CoordinatorOrExit \/ (Running /\ CoordExitDone)
MappingTaskOrStop(m) == MappingTaskOrExit(m) \/ (Running /\ MapWaitDone(m))
NextStop ==
    \/ Orchestrator
    \/ CoordinatorOrStop
    \/ Running /\ FlushPool
    \/ \E m \in Tasks : MappingTaskOrStop(m)
    \/ Complete
    \/ StopCancel
    \/ StopReceive
FairStop ==
    /\ WF_vars(Orchestrator)
    /\ WF_vars(CoordinatorOrStop)
    /\ WF_vars(Running /\ FlushPool)
    /\ \A m \in Tasks : WF_vars(MappingTaskOrStop(m))
    /\ WF_vars(StopReceive)
SpecStop == Init /\ [][NextStop]_vars /\ FairStop

\* C38: after Complete() has been called once, a call of Stop()
\* eventually returns, whatever the flush coordinator and the mapping
\* tasks in the wait-loop receive from t.done.
C38_StopReturnsAfterComplete ==
    (completed /\ calc = StopCalled) ~> (calc = StopReturned)

\* ------------------------------------------------- C39: the stale flag
\* C39: whenever no mapping task is between its send of a flush-pressure
\* signal and its store of the flag, hasSignal = true means that a
\* parameterless flush-pressure signal is in the flush queue.
C39_FlagMeansSignalQueued ==
    ((\A m \in Tasks : pc[m] # "setFlag") /\ hasSignal)
        => \E i \in DOMAIN flushChan : flushChan[i].kind = "pressure"

====
